---------------------------- MODULE Spec2Model ----------------------------
(***************************************************************************)
(* Tive -> PAXAFE ingestion pipeline.                                      *)
(*                                                                         *)
(* Hot path : POST /api/webhook/tive   (src/src/app/api/webhook/tive/route.ts) *)
(* Cold path: processTiveWebhook       (src/unnamed/part_011,              *)
(*                                      src/src/lib/inngest/functions.ts)  *)
(* Storage  : raw_webhook_payloads, telemetry, locations, device_latest    *)
(*            (src/src/lib/db/device-latest.ts, src/src/lib/db/location.ts, *)
(*             src/unnamed/part_015)                                       *)
(*                                                                         *)
(* route.ts holds several builds of the handler.  Two of them are complete *)
(* in the sources together with the storage layer and the job they import: *)
(*   "snapshot" : route.ts:281-467 with the job of part_011                *)
(*   "critical" : route.ts:538-749 with the job of inngest/functions.ts    *)
(* (the dispatch block of route.ts:171-211 is the one of route.ts:680-722) *)
(* The variable variant records which build is deployed.                   *)
(*                                                                         *)
(* Units: decimals are integers in millionths (10.078125 = 10078125);      *)
(* epoch times are in units of 10^6 ms, so that 1e12 ms = 1000000.         *)
(***************************************************************************)
EXTENDS Integers, Sequences, FiniteSets, TLC

VARIABLES
    variant,        \* deployed build of the route and of the job
    rawPayloads,    \* table raw_webhook_payloads, row id = index
    telemetry,      \* table telemetry, row id = index
    locations,      \* table locations, row id = index
    deviceLatest,   \* table device_latest, a set of rows
    req,            \* per webhook call: position in POST and its locals
    tasks,          \* events accepted by the dispatcher and their job runs
    notifications,  \* calls received by the error notification sink
    faults,         \* number of rejected I/O operations so far
    rowOwner,       \* history: the call whose code created each raw row
    offered,        \* scenario: the calls the provider may send as first and as second call
    lastUpsert,     \* history: per device, the call whose snapshot upsert committed last
    redelivered,    \* number of redeliveries so far
    calc,           \* a call of one of the pure functions: its argument and result
    payloadOrderTracking,   \* table payload_order_tracking, one row per device at most
    orderCheck      \* per webhook call: the locals of checkAndUpdatePayloadOrder

vars == <<variant, rawPayloads, telemetry, locations, deviceLatest, req,
          tasks, notifications, faults, rowOwner, offered, lastUpsert, redelivered, calc,
          payloadOrderTracking, orderCheck>>

---------------------------------------------------------------------------
(* Bounds of the model *)

MaxFaults == 1          \* disturbances per behaviour: rejected storage / dispatch
                        \* operations and redeliveries of completed tasks

Requests == {1, 2}      \* webhook calls, numbered on arrival

---------------------------------------------------------------------------
(* Program constants *)

Micro == 1000000
MAX_PAYLOAD_SIZE == 102400
MAX_TIMESTAMP_OFFSET == 31536
TEMP_MIN == -100
TEMP_MAX == 100
LATITUDE_MIN == -90
LATITUDE_MAX == 90
LONGITUDE_MIN == -180
LONGITUDE_MAX == 180
SECONDS_LIMIT == 1000000
OP_TEMPERATURE_MIN == -20
OP_TEMPERATURE_MAX == 30
HUMIDITY_MIN == 0
HUMIDITY_MAX == 100
BATTERY_MIN == 0
BATTERY_MAX == 100
DBM_MIN == -150
DBM_MAX == -50
OP_HUMIDITY_MIN == 20
OP_HUMIDITY_MAX == 80
OP_BATTERY_MIN == 20
OP_CELLULAR_DBM_MIN == -120
OP_ACCELEROMETER_MAGNITUDE_MAX == 2
HIGH_THRESHOLD == 10
MEDIUM_THRESHOLD == 100
AccUnit == 10000        \* accelerometer values are in units of 10^-4 g
retries == 3
Now == 1790000

ApiKey == "test-api-key"
NoHeader == "<none>"
None == 0               \* undefined / NULL for ids (SERIAL ids start at 1)

---------------------------------------------------------------------------
(* Inbound documents *)

Imei1 == "863257063350583"
Imei2 == "863257063350584"

\* /^[0-9]{15}$/ over the DeviceId strings of the model
Is15Digits(s) == s \in {Imei1, Imei2}

AllFields == {"DeviceId", "DeviceName", "EntryTimeEpoch", "Temperature",
              "Temperature.Celsius", "Location", "Location.Latitude",
              "Location.Longitude"}

\* the optional fields that the validator, the transformer or the classifier read
OptionalFields == {"Humidity.Percentage", "Battery.Percentage", "Cellular.Dbm", "Light.Lux",
                   "Accelerometer", "Accelerometer.X", "Accelerometer.Y", "Accelerometer.Z",
                   "Accelerometer.G", "Location.Accuracy.Meters"}

\* has: the fields present (truthy / non-null); mistyped: present with the wrong type;
\* every optional field is absent unless has names it
Doc(imei, name, ts, celsius, lat, lon, method) ==
    [has |-> AllFields, mistyped |-> {}, DeviceId |-> imei, DeviceName |-> name,
     EntryTimeEpoch |-> ts, Celsius |-> celsius, Latitude |-> lat,
     Longitude |-> lon, LocationMethod |-> method,
     Humidity |-> 0, Battery |-> 0, Dbm |-> 0, Lux |-> 0,
     AccX |-> 0, AccY |-> 0, AccZ |-> 0, AccG |-> 0, Meters |-> 0]

PayloadA == Doc(Imei1, "A571992", Now, 10078125, 40810562, -73879285, "wifi")
PayloadB == Doc(Imei1, "A571992", Now - 1, 35000000, 40000000, -73000000, "gps")
PayloadC == Doc(Imei2, "B100200", Now, 5000000, 51500000, -120000, "<absent>")
\* Latitude = 95
PayloadBadLat == Doc(Imei1, "A571992", Now, 10000000, 95000000, -73879285, "wifi")
\* passes validation, LocationMethod is a number: toLowerCase is not a function
PayloadOddMethod == Doc(Imei1, "A571992", Now, 12000000, 41000000, -74000000, "<number>")
\* PayloadA with a temperature above the operating range: the two documents
\* differ in nothing but their classification by isCriticalEvent
PayloadHot == [PayloadA EXCEPT !.Celsius = 35000000]

Documents == {PayloadA, PayloadB, PayloadC, PayloadBadLat, PayloadOddMethod, PayloadHot}

\* the body `null`: well-formed JSON that is not an object
JsonNull == [Doc("<null>", "<null>", 0, 0, 0, 0, "<absent>") EXCEPT !.has = {}]

---------------------------------------------------------------------------
(* Pure functions *)

\* variant: every error is reported against the payload as a whole
ErrUnnamed(f, m) ==
    [field |-> "payload", message |-> m]

Err(f, m) ==
    [field |-> f, message |-> m]

\* variant: the end points of a range are rejected
OutOfRangeOpen(v, lo, hi) ==
    v <= lo * Micro \/ v >= hi * Micro

\* v < lo || v > hi, v in millionths
OutOfRange(v, lo, hi) ==
    v < lo * Micro \/ v > hi * Micro

\* an optional number: skipped when null or undefined
optionalErrors(p, f, v, lo, hi, typeMsg, rangeMsg) ==
    IF f \notin p.has THEN <<>>
    ELSE IF f \in p.mistyped THEN <<Err(f, typeMsg)>>
    ELSE IF OutOfRange(v, lo, hi) THEN <<Err(f, rangeMsg)>>
    ELSE <<>>

\* validateTivePayload: all errors are collected, in the order of the checks
validateErrors(p) ==
    (IF "DeviceId" \notin p.has THEN <<Err("DeviceId", "DeviceId is required")>>
     ELSE IF "DeviceId" \in p.mistyped THEN <<Err("DeviceId", "DeviceId must be a string")>>
     ELSE IF ~Is15Digits(p.DeviceId) THEN <<Err("DeviceId", "DeviceId must be exactly 15 digits")>>
     ELSE <<>>)
    \o
    (IF "DeviceName" \notin p.has THEN <<Err("DeviceName", "DeviceName is required")>>
     ELSE IF "DeviceName" \in p.mistyped THEN <<Err("DeviceName", "DeviceName must be a string")>>
     ELSE <<>>)
    \o
    (IF "EntryTimeEpoch" \notin p.has THEN <<Err("EntryTimeEpoch", "EntryTimeEpoch is required")>>
     ELSE IF "EntryTimeEpoch" \in p.mistyped THEN <<Err("EntryTimeEpoch", "EntryTimeEpoch must be a number")>>
     ELSE IF p.EntryTimeEpoch < 0 THEN <<Err("EntryTimeEpoch", "Timestamp cannot be negative")>>
     ELSE IF p.EntryTimeEpoch < Now - MAX_TIMESTAMP_OFFSET
          THEN <<Err("EntryTimeEpoch", "Timestamp is too far in the past (more than 1 year)")>>
     ELSE IF p.EntryTimeEpoch > Now + MAX_TIMESTAMP_OFFSET
          THEN <<Err("EntryTimeEpoch", "Timestamp is in the future (more than 1 year ahead)")>>
     ELSE <<>>)
    \o
    (IF "Temperature" \notin p.has THEN <<Err("Temperature", "Temperature is required")>>
     ELSE IF "Temperature" \in p.mistyped THEN <<Err("Temperature", "Temperature must be an object")>>
     ELSE IF "Temperature.Celsius" \notin p.has
          THEN <<Err("Temperature.Celsius", "Temperature.Celsius is required")>>
     ELSE IF "Temperature.Celsius" \in p.mistyped
          THEN <<Err("Temperature.Celsius", "Temperature.Celsius must be a number")>>
     ELSE IF OutOfRange(p.Celsius, TEMP_MIN, TEMP_MAX)
          THEN <<Err("Temperature.Celsius", "Temperature.Celsius is outside reasonable range (-100 to 100)")>>
     ELSE <<>>)
    \o
    (IF "Location" \notin p.has THEN <<Err("Location", "Location is required")>>
     ELSE IF "Location" \in p.mistyped THEN <<Err("Location", "Location must be an object")>>
     ELSE
        (IF "Location.Latitude" \notin p.has
              THEN <<Err("Location.Latitude", "Location.Latitude is required")>>
         ELSE IF "Location.Latitude" \in p.mistyped
              THEN <<Err("Location.Latitude", "Location.Latitude must be a number")>>
         ELSE IF OutOfRange(p.Latitude, LATITUDE_MIN, LATITUDE_MAX)
              THEN <<Err("Location.Latitude", "Latitude must be between -90 and 90")>>
         ELSE <<>>)
        \o
        (IF "Location.Longitude" \notin p.has
              THEN <<Err("Location.Longitude", "Location.Longitude is required")>>
         ELSE IF "Location.Longitude" \in p.mistyped
              THEN <<Err("Location.Longitude", "Location.Longitude must be a number")>>
         ELSE IF OutOfRange(p.Longitude, LONGITUDE_MIN, LONGITUDE_MAX)
              THEN <<Err("Location.Longitude", "Longitude must be between -180 and 180")>>
         ELSE <<>>))
    \o optionalErrors(p, "Humidity.Percentage", p.Humidity, HUMIDITY_MIN, HUMIDITY_MAX,
                      "Humidity.Percentage must be a number",
                      "Humidity.Percentage must be between 0 and 100")
    \o optionalErrors(p, "Battery.Percentage", p.Battery, BATTERY_MIN, BATTERY_MAX,
                      "Battery.Percentage must be a number",
                      "Battery.Percentage must be between 0 and 100")
    \o optionalErrors(p, "Cellular.Dbm", p.Dbm, DBM_MIN, DBM_MAX,
                      "Cellular.Dbm must be a number",
                      "Cellular.Dbm must be between -150 and -50")

\* payload.DeviceId on null: TypeError
validateThrows(p) == p = JsonNull

validateTivePayload(p) ==
    [valid |-> Len(validateErrors(p)) = 0, errors |-> validateErrors(p)]

\* Math.round(num / den) for den > 0: the nearest integer, halves towards +infinity
MathRound(num, den) == (2 * num + den) \div (2 * den)

\* variant: every timestamp is taken to be in seconds
normalizeTimestampAlways(epoch) ==
    epoch * 1000

normalizeTimestamp(epoch) ==
    IF epoch < SECONDS_LIMIT THEN epoch * 1000 ELSE epoch

\* Math.round(Celsius * 100) / 100, in millionths
RoundTemperature(c) == MathRound(c, Micro \div 100) * (Micro \div 100)

\* a number that may be null
Num(v) == [null |-> FALSE, v |-> v]
NullValue == [null |-> TRUE, v |-> 0]

\* Math.round(x * 10) / 10, in millionths (humidity, light)
RoundTenth(x) == MathRound(x, Micro \div 10) * (Micro \div 10)

\* Math.round(x * 1000) / 1000, in units of 10^-4 (accelerometer)
RoundThousandth(x) == MathRound(x, AccUnit \div 1000) * (AccUnit \div 1000)

Rounded(p, f, v) == IF f \in p.has THEN Num(v) ELSE NullValue

transformToSensorPayload(p) ==
    [device_id |-> p.DeviceName, device_imei |-> p.DeviceId,
     timestamp |-> normalizeTimestamp(p.EntryTimeEpoch),
     temperature |-> RoundTemperature(p.Celsius),
     humidity |-> Rounded(p, "Humidity.Percentage", RoundTenth(p.Humidity)),
     light_level |-> Rounded(p, "Light.Lux", RoundTenth(p.Lux)),
     accelerometer |->
        IF "Accelerometer" \notin p.has THEN [null |-> TRUE]
        ELSE [null |-> FALSE,
              x |-> Rounded(p, "Accelerometer.X", RoundThousandth(p.AccX)),
              y |-> Rounded(p, "Accelerometer.Y", RoundThousandth(p.AccY)),
              z |-> Rounded(p, "Accelerometer.Z", RoundThousandth(p.AccZ)),
              magnitude |-> Rounded(p, "Accelerometer.G", RoundThousandth(p.AccG))]]

\* tive.Location.LocationMethod.toLowerCase() throws on a non-string value
transformThrows(p) == p.LocationMethod = "<number>"

locationSource(m) ==
    IF m = "<absent>" THEN "<null>"
    ELSE IF m = "wifi" THEN "WiFi"
    ELSE IF m = "gps" THEN "GPS"
    ELSE m

\* variant: the thresholds belong to the category above them
accuracyCategoryStrict(p) ==
    IF "Location.Accuracy.Meters" \notin p.has THEN "<null>"
    ELSE IF p.Meters < HIGH_THRESHOLD * Micro THEN "High"
    ELSE IF p.Meters < MEDIUM_THRESHOLD * Micro THEN "Medium"
    ELSE "Low"

\* accuracyCategory of transformToLocationPayload
accuracyCategory(p) ==
    IF "Location.Accuracy.Meters" \notin p.has THEN "<null>"
    ELSE IF p.Meters <= HIGH_THRESHOLD * Micro THEN "High"
    ELSE IF p.Meters <= MEDIUM_THRESHOLD * Micro THEN "Medium"
    ELSE "Low"

transformToLocationPayload(p) ==
    [device_id |-> p.DeviceName, device_imei |-> p.DeviceId,
     timestamp |-> normalizeTimestamp(p.EntryTimeEpoch),
     latitude |-> p.Latitude, longitude |-> p.Longitude,
     \* accuracyMeters ? Math.round(accuracyMeters) : null
     location_accuracy |-> IF "Location.Accuracy.Meters" \in p.has /\ p.Meters # 0
                           THEN Num(MathRound(p.Meters, Micro)) ELSE NullValue,
     location_accuracy_category |-> accuracyCategory(p),
     location_source |-> locationSource(p.LocationMethod),
     battery_level |-> Rounded(p, "Battery.Percentage", p.Battery),
     cellular_dbm |-> Rounded(p, "Cellular.Dbm", RoundTemperature(p.Dbm))]

Violation(cond, reason) == IF cond THEN <<reason>> ELSE <<>>

IsNumber(p, f) == f \in p.has /\ f \notin p.mistyped

\* variant: a value on the limit of its operating range is a violation
BelowMinInclusive(p, f, v, min) ==
    f \in p.has /\ v <= min * Micro

\* an optional value that is present and below the minimum of its range
BelowMin(p, f, v, min) ==
    f \in p.has /\ v < min * Micro

AboveMax(p, f, v, max) == f \in p.has /\ v > max * Micro

\* Math.sqrt(X^2 + Y^2 + Z^2) > MAX, compared on the squares
NormAbove(p, max) ==
    p.AccX * p.AccX + p.AccY * p.AccY + p.AccZ * p.AccZ > (max * AccUnit) * (max * AccUnit)

\* the reasons of isCriticalEvent, in the order of the checks
criticalReasons(p) ==
    (IF BelowMin(p, "Temperature.Celsius", p.Celsius, OP_TEMPERATURE_MIN)
     THEN <<"Temperature too low">>
     ELSE Violation(AboveMax(p, "Temperature.Celsius", p.Celsius, OP_TEMPERATURE_MAX),
                    "Temperature too high"))
    \o
    (IF BelowMin(p, "Humidity.Percentage", p.Humidity, OP_HUMIDITY_MIN)
     THEN <<"Humidity too low">>
     ELSE Violation(AboveMax(p, "Humidity.Percentage", p.Humidity, OP_HUMIDITY_MAX),
                    "Humidity too high"))
    \o Violation(BelowMin(p, "Battery.Percentage", p.Battery, OP_BATTERY_MIN), "Low battery")
    \o Violation(BelowMin(p, "Cellular.Dbm", p.Dbm, OP_CELLULAR_DBM_MIN), "Poor cellular signal")
    \o
    (IF "Accelerometer" \notin p.has THEN <<>>
     ELSE IF /\ IsNumber(p, "Accelerometer.X") /\ IsNumber(p, "Accelerometer.Y")
             /\ IsNumber(p, "Accelerometer.Z")
          THEN Violation(NormAbove(p, OP_ACCELEROMETER_MAGNITUDE_MAX), "High movement detected")
     ELSE Violation(/\ IsNumber(p, "Accelerometer.G")
                    /\ p.AccG > OP_ACCELEROMETER_MAGNITUDE_MAX * AccUnit,
                    "High movement detected"))

\* isCritical = reasons.length > 0
isCriticalEvent(p) == Len(criticalReasons(p)) > 0

\* validateApiKey: x-api-key, else authorization with a leading "Bearer " removed
Hdr(x, scheme, rest) == [xApiKey |-> x, authScheme |-> scheme, authRest |-> rest]

\* the beginnings of an Authorization value that /^Bearer\s+/i matches:
\* "Bearer" is the word followed by one space, the others differ in case or
\* in the white space that follows
BearerPrefixes == {"Bearer", "bearer", "Bearer<spaces>"}

\* headers.get('x-api-key') || headers.get('authorization')?.replace(/^Bearer\s+/i, '')
\* authScheme "" is an Authorization value with nothing before authRest
extractApiKey(h) ==
    IF h.xApiKey # NoHeader /\ h.xApiKey # "" THEN h.xApiKey
    ELSE IF h.authScheme = NoHeader THEN NoHeader
    ELSE IF h.authScheme \in BearerPrefixes \/ h.authScheme = "" THEN h.authRest
    ELSE "<unstripped>"

\* variant: the presented key is not compared with the secret
validateApiKeyPresenceOnly(h) ==
    /\ ApiKey # ""
    /\ extractApiKey(h) \notin {NoHeader, ""}

\* validateApiKey against the configured secret expected ("" when API_KEY is unset)
validateKey(expected, h) ==
    /\ expected # ""
    /\ extractApiKey(h) \notin {NoHeader, ""}
    /\ extractApiKey(h) = expected

validateApiKey(h) ==
    validateKey(ApiKey, h)

---------------------------------------------------------------------------
(* Webhook calls offered to the endpoint *)

NoLen == -1     \* no Content-Length header

UndeclaredSize == 512   \* bytes of a body sent without a Content-Length header

\* contentLength: the Content-Length header; size: the bytes of the body
CallSized(h, len, size, ok, d) ==
    [headers |-> h, contentLength |-> len, size |-> size, wellFormed |-> ok, body |-> d]

Call(h, len, ok, d) == CallSized(h, len, IF len = NoLen THEN UndeclaredSize ELSE len, ok, d)

GoodKey == Hdr(ApiKey, NoHeader, NoHeader)

\* calls that end before the audit store: Bearer key with a malformed body,
\* missing key, wrong key, oversize, the body `null`
RejectedCalls ==
    { Call(Hdr(NoHeader, "Bearer", ApiKey), 512, FALSE, PayloadA),
      Call(Hdr(NoHeader, NoHeader, NoHeader), NoLen, TRUE, PayloadA),
      Call(Hdr("wrong-key", NoHeader, NoHeader), NoLen, TRUE, PayloadA),
      Call(GoodKey, 204800, TRUE, PayloadA),
      Call(GoodKey, NoLen, TRUE, JsonNull) }

\* a body over the limit sent without a Content-Length header
UndeclaredOversize == CallSized(GoodKey, NoLen, 204800, TRUE, PayloadA)

\* a malformed body over the limit that declares its length
MalformedOversize == Call(GoodKey, 204800, FALSE, PayloadA)

CallsWith(docs) == { Call(GoodKey, NoLen, TRUE, d) : d \in docs } \cup RejectedCalls

Calls == CallsWith(Documents) \cup {UndeclaredOversize, MalformedOversize}

---------------------------------------------------------------------------
(* State *)

NoResponse == [status |-> 0, error |-> "", payload_id |-> None, errors |-> <<>>]

Response(st, err, id, errs) == [status |-> st, error |-> err, payload_id |-> id, errors |-> errs]

IdleReq ==
    [pc |-> "idle", call |-> Call(GoodKey, NoLen, TRUE, PayloadA),
     rawPayloadId |-> None, transformed |-> FALSE, isCritical |-> FALSE,
     telemetryId |-> None, locationId |-> None, inngestEventId |-> None,
     response |-> NoResponse,
     sendRejected |-> FALSE,     \* history: inngest.send rejected this call's event
     upsertRejected |-> FALSE]   \* history: the snapshot upsert of this call failed

\* no pure function is being called on its own
NoCalc == [fn |-> "none", done |-> FALSE, arg |-> "none", out |-> "none"]

\* no row of payload_order_tracking for a device
NoOrderRow == [present |-> FALSE, last_timestamp |-> 0, out_of_order_count |-> 0]

\* checkAndUpdatePayloadOrder has not been called
NoOrderCheck == [selected |-> NoOrderRow, isOutOfOrder |-> FALSE]

\* storage and handlers right after deployment
InitStorage(calls) ==
    /\ variant \in {"snapshot", "critical"}
    /\ offered = calls
    /\ rawPayloads = <<>>
    /\ telemetry = <<>>
    /\ locations = <<>>
    /\ deviceLatest = {}
    /\ req = [r \in Requests |-> IdleReq]
    /\ tasks = <<>>
    /\ notifications = <<>>
    /\ faults = 0
    /\ rowOwner = <<>>
    /\ lastUpsert = [d \in {Imei1, Imei2} |-> None]
    /\ redelivered = 0
    /\ payloadOrderTracking = [d \in {Imei1, Imei2} |-> NoOrderRow]
    /\ orderCheck = [r \in Requests |-> NoOrderCheck]

InitOffering(calls) ==
    /\ InitStorage(calls)
    /\ calc = NoCalc

InitWith(first, second) ==
    InitOffering([r \in Requests |-> CallsWith(IF r = 1 THEN first ELSE second)])

\* one device: a critical reading, then a normal reading with a later
\* timestamp or the same reading again; either call may instead carry an
\* invalid document
Init == InitWith({PayloadB, PayloadBadLat}, {PayloadA, PayloadB, PayloadBadLat})

\* the second call comes from the same device or from another one
InitTwoDevices == InitWith({PayloadB, PayloadBadLat}, {PayloadA, PayloadC, PayloadBadLat})

\* a normal reading and its critical twin, either replaced by an invalid document
InitTwoClasses == InitWith({PayloadA, PayloadBadLat}, {PayloadHot, PayloadBadLat})

\* an I/O operation may be rejected while the budget of disturbances lasts
CanFail == faults + redelivered < MaxFaults

---------------------------------------------------------------------------
(* Storage layer *)

\* prisma.rawWebhookPayload.create: always a new row with the next SERIAL id
storeRawPayload(rows, payload, validationErrors, status, inngestEventId) ==
    Append(rows, [payload |-> payload, source |-> "Tive", status |-> status,
                  validationErrors |-> validationErrors,
                  inngestEventId |-> inngestEventId, processed |-> FALSE])

\* variant: the update has no where clause
updateRawPayloadStatusEveryRow(rows, payloadId, status) ==
    [i \in 1..Len(rows) |-> [rows[i] EXCEPT !.status = status, !.processed = TRUE]]

\* variant: processedAt is written, the status column is not
updateRawPayloadStatusProcessedOnly(rows, payloadId, status) ==
    [rows EXCEPT ![payloadId].processed = TRUE]

\* prisma.rawWebhookPayload.update where id: status, processedAt, processingError
updateRawPayloadStatus(rows, payloadId, status) ==
    [rows EXCEPT ![payloadId].status = status, ![payloadId].processed = TRUE]

\* variant: recording the event id writes the status of a dispatched row too
updateRawPayloadInngestEventIdAndStatus(rows, payloadId, inngestEventId) ==
    [rows EXCEPT ![payloadId].inngestEventId = inngestEventId,
                 ![payloadId].status = "pending"]

\* prisma.rawWebhookPayload.update where id: inngestEventId only
updateRawPayloadInngestEventId(rows, payloadId, inngestEventId) ==
    [rows EXCEPT ![payloadId].inngestEventId = inngestEventId]

\* variant: a reading whose (device_imei, ts) is already stored is not inserted
saveTelemetryIfAbsent(rows, sp) ==
    IF \E i \in 1..Len(rows) : rows[i].deviceImei = sp.device_imei /\ rows[i].ts = sp.timestamp
    THEN rows
    ELSE Append(rows, [deviceImei |-> sp.device_imei, deviceId |-> sp.device_id,
                       ts |-> sp.timestamp, temperature |-> sp.temperature])

saveTelemetry(rows, sp) ==
    Append(rows, [deviceImei |-> sp.device_imei, deviceId |-> sp.device_id,
                  ts |-> sp.timestamp, temperature |-> sp.temperature])

saveLocation(rows, lp) ==
    Append(rows, [deviceImei |-> lp.device_imei, deviceId |-> lp.device_id,
                  ts |-> lp.timestamp, latitude |-> lp.latitude,
                  longitude |-> lp.longitude, locationSource |-> lp.location_source])

RowsOf(imei) == { row \in deviceLatest : row.deviceImei = imei }

Snapshot(deviceId, timestamp, sp, lp) ==
    [deviceId |-> deviceId, lastTs |-> timestamp,
     lastTemperature |-> sp.temperature, lastLat |-> lp.latitude,
     lastLon |-> lp.longitude, locationSource |-> lp.location_source]

\* variant: create instead of upsert
updateDeviceLatestCriticalCreate(table, deviceImei, deviceId, timestamp, sp, lp) ==
    table \cup { [deviceImei |-> deviceImei,
                  snapshot |-> Snapshot(deviceId, timestamp, sp, lp),
                  latestTelemetryId |-> None, latestLocationId |-> None] }

\* variant: the update branch keeps a snapshot with a later timestamp
updateDeviceLatestCriticalNewest(table, deviceImei, deviceId, timestamp, sp, lp) ==
    IF \E row \in table : row.deviceImei = deviceImei
    THEN { IF row.deviceImei = deviceImei /\ row.snapshot.lastTs <= timestamp
           THEN [row EXCEPT !.snapshot = Snapshot(deviceId, timestamp, sp, lp)]
           ELSE row : row \in table }
    ELSE table \cup { [deviceImei |-> deviceImei,
                       snapshot |-> Snapshot(deviceId, timestamp, sp, lp),
                       latestTelemetryId |-> None, latestLocationId |-> None] }

\* variant: the update branch of the upsert also resets the references
updateDeviceLatestCriticalResetsReferences(table, deviceImei, deviceId, timestamp, sp, lp) ==
    IF \E row \in table : row.deviceImei = deviceImei
    THEN { IF row.deviceImei = deviceImei
           THEN [row EXCEPT !.snapshot = Snapshot(deviceId, timestamp, sp, lp),
                            !.latestTelemetryId = None, !.latestLocationId = None]
           ELSE row : row \in table }
    ELSE table \cup { [deviceImei |-> deviceImei,
                       snapshot |-> Snapshot(deviceId, timestamp, sp, lp),
                       latestTelemetryId |-> None, latestLocationId |-> None] }

\* prisma.deviceLatest.upsert where deviceImei: create the row (references
\* NULL) or overwrite the snapshot columns of the existing row
updateDeviceLatestCritical(table, deviceImei, deviceId, timestamp, sp, lp) ==
    IF \E row \in table : row.deviceImei = deviceImei
    THEN { IF row.deviceImei = deviceImei
           THEN [row EXCEPT !.snapshot = Snapshot(deviceId, timestamp, sp, lp)]
           ELSE row : row \in table }
    ELSE table \cup { [deviceImei |-> deviceImei,
                       snapshot |-> Snapshot(deviceId, timestamp, sp, lp),
                       latestTelemetryId |-> None, latestLocationId |-> None] }

\* prisma.deviceLatest.update where deviceImei fails when no row matches, or
\* when another row holds the id (unique indexes of device_latest)
referencesAccepted(table, deviceImei, telemetryId, locationId) ==
    /\ \E row \in table : row.deviceImei = deviceImei
    /\ \A row \in table : row.deviceImei # deviceImei =>
            /\ row.latestTelemetryId # telemetryId
            /\ row.latestLocationId # locationId

\* variant: the update has no where clause and no unique index stops it
updateDeviceLatestReferencesEveryRow(table, deviceImei, telemetryId, locationId) ==
    { [row EXCEPT !.latestTelemetryId = telemetryId, !.latestLocationId = locationId] :
        row \in table }

updateDeviceLatestReferences(table, deviceImei, telemetryId, locationId) ==
    IF referencesAccepted(table, deviceImei, telemetryId, locationId)
    THEN { IF row.deviceImei = deviceImei
           THEN [row EXCEPT !.latestTelemetryId = telemetryId,
                            !.latestLocationId = locationId]
           ELSE row : row \in table }
    ELSE table

---------------------------------------------------------------------------
(* Hot path: POST /api/webhook/tive *)

Respond(r, st, err, id, errs, next) ==
    [req EXCEPT ![r].response = Response(st, err, id, errs), ![r].pc = next]

\* variant: request.json() accepts any body
parsesAnything(c) ==
    TRUE

\* request.json() resolves
parses(c) ==
    c.wellFormed

\* steps 1-4: authentication, size check, parsing, validation (no I/O)
Post(r, c) ==
    /\ req[r].pc = "idle"
    /\ c \in offered[r]
    /\ \A q \in Requests : q < r => req[q].pc # "idle"   \* calls are numbered on arrival
    /\ LET rc == [req[r] EXCEPT !.call = c] IN
       req' = [req EXCEPT ![r] =
          IF ~validateApiKey(c.headers)
          THEN [rc EXCEPT !.pc = "done", !.response = Response(401, "Unauthorized", None, <<>>)]
          ELSE IF c.contentLength # NoLen /\ c.contentLength > MAX_PAYLOAD_SIZE
          THEN [rc EXCEPT !.pc = "done", !.response = Response(413, "Payload too large", None, <<>>)]
          ELSE IF ~parses(c)
          THEN [rc EXCEPT !.pc = "done", !.response = Response(400, "Invalid JSON", None, <<>>)]
          ELSE IF validateThrows(c.body)      \* caught by the outer catch
          THEN [rc EXCEPT !.pc = "done", !.response = Response(500, "Internal server error", None, <<>>)]
          ELSE IF ~validateTivePayload(c.body).valid
          THEN [rc EXCEPT !.pc = "storeInvalid"]
          ELSE [rc EXCEPT !.pc = "storeAudit"]]
    /\ UNCHANGED <<calc, variant, rawPayloads, telemetry, locations, deviceLatest,
                   tasks, notifications, faults, rowOwner, offered, lastUpsert, redelivered,
                   payloadOrderTracking, orderCheck>>

\* variant: a failed store of the invalid payload ends the request with 503
StoreInvalidFatal(r) ==
    /\ req[r].pc = "storeInvalid"
    /\ \/ /\ rawPayloads' = storeRawPayload(rawPayloads, req[r].call.body,
                                validateTivePayload(req[r].call.body).errors, "failed", None)
          /\ rowOwner' = Append(rowOwner, r)
          /\ req' = [req EXCEPT ![r].rawPayloadId = Len(rawPayloads) + 1, ![r].pc = "notify"]
          /\ UNCHANGED faults
       \/ /\ CanFail
          /\ faults' = faults + 1
          /\ req' = Respond(r, 503, "Database error", None, <<>>, "done")
          /\ UNCHANGED <<rawPayloads, rowOwner>>
    /\ UNCHANGED <<calc, variant, telemetry, locations, deviceLatest, tasks, notifications, offered, lastUpsert, redelivered,
                   payloadOrderTracking, orderCheck>>

\* invalid payload: storeRawPayload(body, validation.errors, 'failed'), failure logged
StoreInvalid(r) ==
    /\ req[r].pc = "storeInvalid"
    /\ \/ /\ rawPayloads' = storeRawPayload(rawPayloads, req[r].call.body,
                                validateTivePayload(req[r].call.body).errors, "failed", None)
          /\ rowOwner' = Append(rowOwner, r)
          /\ req' = [req EXCEPT ![r].rawPayloadId = Len(rawPayloads) + 1, ![r].pc = "notify"]
          /\ UNCHANGED faults
       \/ /\ CanFail
          /\ faults' = faults + 1
          /\ req' = [req EXCEPT ![r].pc = "notify"]
          /\ UNCHANGED <<rawPayloads, rowOwner>>
    /\ UNCHANGED <<calc, variant, telemetry, locations, deviceLatest, tasks, notifications, offered, lastUpsert, redelivered,
                   payloadOrderTracking, orderCheck>>

\* variant: a notification that cannot be delivered fails the request
NotifyFailureFatal(r) ==
    /\ req[r].pc = "notify"
    /\ \E delivered \in BOOLEAN :
          /\ notifications' = Append(notifications,
                [payload_id |-> req[r].rawPayloadId, device_id |-> req[r].call.body.DeviceId,
                 error_type |-> "validation", delivered |-> delivered, by |-> r])
          /\ req' = IF delivered
                    THEN Respond(r, 400, "Validation failed", req[r].rawPayloadId,
                                 validateTivePayload(req[r].call.body).errors, "done")
                    ELSE Respond(r, 500, "Internal server error", None, <<>>, "done")
    /\ UNCHANGED <<calc, variant, rawPayloads, telemetry, locations, deviceLatest, tasks,
                   faults, rowOwner, offered, lastUpsert, redelivered,
                   payloadOrderTracking, orderCheck>>

\* invalid payload: notifyTiveOfError (best effort), then the 400 response
Notify(r) ==
    /\ req[r].pc = "notify"
    /\ \E delivered \in BOOLEAN :     \* the sink is best effort
          /\ notifications' = Append(notifications,
                [payload_id |-> req[r].rawPayloadId, device_id |-> req[r].call.body.DeviceId,
                 error_type |-> "validation", delivered |-> delivered, by |-> r])
    /\ req' = Respond(r, 400, "Validation failed", req[r].rawPayloadId,
                      validateTivePayload(req[r].call.body).errors, "done")
    /\ UNCHANGED <<calc, variant, rawPayloads, telemetry, locations, deviceLatest, tasks,
                   faults, rowOwner, offered, lastUpsert, redelivered,
                   payloadOrderTracking, orderCheck>>

\* the locals after the transformation try-block and the next await of each build
AfterAudit(rq, id) ==
    LET ok == ~transformThrows(rq.call.body)
        crit == isCriticalEvent(rq.call.body)
        r1 == [rq EXCEPT !.rawPayloadId = id, !.transformed = ok, !.isCritical = crit]
    IN  IF variant = "snapshot"
        THEN IF ok THEN [r1 EXCEPT !.pc = "upsert"]
             ELSE [r1 EXCEPT !.pc = "sending",
                             !.response = Response(200, "", id, <<>>)]
        ELSE IF crit /\ ok THEN [r1 EXCEPT !.pc = "criticalSave"]
             ELSE [r1 EXCEPT !.pc = "send"]

\* variant: a failed audit store is logged and the request goes on
StoreAuditBestEffort(r) ==
    /\ req[r].pc = "storeAudit"
    /\ \/ /\ rawPayloads' = storeRawPayload(rawPayloads, req[r].call.body, <<>>, "pending", None)
          /\ rowOwner' = Append(rowOwner, r)
          /\ req' = [req EXCEPT ![r] = AfterAudit(req[r], Len(rawPayloads) + 1)]
          /\ UNCHANGED faults
       \/ /\ CanFail
          /\ faults' = faults + 1
          /\ req' = [req EXCEPT ![r] = AfterAudit(req[r], None)]
          /\ UNCHANGED <<rawPayloads, rowOwner>>
    /\ UNCHANGED <<calc, variant, telemetry, locations, deviceLatest, tasks, notifications, offered, lastUpsert, redelivered,
                   payloadOrderTracking, orderCheck>>

\* variant: a failed audit store is left to the outer catch
StoreAuditInternalError(r) ==
    /\ req[r].pc = "storeAudit"
    /\ \/ /\ rawPayloads' = storeRawPayload(rawPayloads, req[r].call.body, <<>>, "pending", None)
          /\ rowOwner' = Append(rowOwner, r)
          /\ req' = [req EXCEPT ![r] = AfterAudit(req[r], Len(rawPayloads) + 1)]
          /\ UNCHANGED faults
       \/ /\ CanFail
          /\ faults' = faults + 1
          /\ req' = Respond(r, 500, "Internal server error", None, <<>>, "done")
          /\ UNCHANGED <<rawPayloads, rowOwner>>
    /\ UNCHANGED <<calc, variant, telemetry, locations, deviceLatest, tasks, notifications, offered, lastUpsert, redelivered,
                   payloadOrderTracking, orderCheck>>

\* valid payload: storeRawPayload(body, undefined, 'pending'); failure is a 503
StoreAudit(r) ==
    /\ req[r].pc = "storeAudit"
    /\ \/ /\ rawPayloads' = storeRawPayload(rawPayloads, req[r].call.body, <<>>, "pending", None)
          /\ rowOwner' = Append(rowOwner, r)
          /\ req' = [req EXCEPT ![r] = AfterAudit(req[r], Len(rawPayloads) + 1)]
          /\ UNCHANGED faults
       \/ /\ CanFail
          /\ faults' = faults + 1
          /\ req' = Respond(r, 503, "Database error", None, <<>>, "done")
          /\ UNCHANGED <<rawPayloads, rowOwner>>
    /\ UNCHANGED <<calc, variant, telemetry, locations, deviceLatest, tasks, notifications, offered, lastUpsert, redelivered,
                   payloadOrderTracking, orderCheck>>

\* build "snapshot": updateDeviceLatestCritical (errors swallowed), then the
\* success response is built and inngest.send is started without awaiting it
UpsertLatest(r) ==
    /\ variant = "snapshot"
    /\ req[r].pc = "upsert"
    /\ LET sp == transformToSensorPayload(req[r].call.body)
           lp == transformToLocationPayload(req[r].call.body)
       IN \/ /\ deviceLatest' = updateDeviceLatestCritical(deviceLatest, sp.device_imei,
                                     sp.device_id, sp.timestamp, sp, lp)
             /\ lastUpsert' = [lastUpsert EXCEPT ![sp.device_imei] = r]
             /\ UNCHANGED faults
             /\ req' = Respond(r, 200, "", req[r].rawPayloadId, <<>>, "sending")
          \/ /\ CanFail
             /\ faults' = faults + 1
             /\ UNCHANGED <<deviceLatest, lastUpsert>>
             /\ req' = [Respond(r, 200, "", req[r].rawPayloadId, <<>>, "sending")
                          EXCEPT ![r].upsertRejected = TRUE]
    /\ UNCHANGED <<calc, variant, rawPayloads, telemetry, locations, tasks, notifications, rowOwner, offered, redelivered,
                   payloadOrderTracking, orderCheck>>

NewTask(r) ==
    [raw_id |-> req[r].rawPayloadId, payload |-> req[r].call.body,
     is_critical |-> IF variant = "critical" THEN req[r].isCritical ELSE FALSE,
     telemetry_id |-> req[r].telemetryId, location_id |-> req[r].locationId,
     pc |-> "queued", attempts |-> 0,
     telemetryId |-> None, locationId |-> None, by |-> r]

\* build "snapshot": the background inngest.send settles after the response
SendSettles(r) ==
    /\ variant = "snapshot"
    /\ req[r].pc = "sending"
    /\ \/ /\ tasks' = Append(tasks, NewTask(r))
          /\ req' = [req EXCEPT ![r].inngestEventId = Len(tasks) + 1, ![r].pc = "recordEvent"]
          /\ UNCHANGED faults
       \/ /\ CanFail
          /\ faults' = faults + 1
          /\ req' = [req EXCEPT ![r].pc = "done", ![r].sendRejected = TRUE]
          /\ UNCHANGED tasks
    /\ UNCHANGED <<calc, variant, rawPayloads, telemetry, locations, deviceLatest,
                   notifications, rowOwner, offered, lastUpsert, redelivered,
                   payloadOrderTracking, orderCheck>>

\* the event id is recorded in the background, after the response:
\* "snapshot" updates the audit row (updateRawPayloadInngestEventId),
\* "critical" calls storeRawPayload(body, undefined, 'pending', inngestEventId)
RecordEventId(r) ==
    /\ req[r].pc = "recordEvent"
    /\ \/ /\ IF variant = "snapshot"
             THEN /\ rawPayloads' = updateRawPayloadInngestEventId(rawPayloads,
                                        req[r].rawPayloadId, req[r].inngestEventId)
                  /\ UNCHANGED rowOwner
             ELSE /\ rawPayloads' = storeRawPayload(rawPayloads, req[r].call.body, <<>>,
                                        "pending", req[r].inngestEventId)
                  /\ rowOwner' = Append(rowOwner, r)
          /\ UNCHANGED faults
       \/ /\ CanFail
          /\ faults' = faults + 1
          /\ UNCHANGED <<rawPayloads, rowOwner>>
    /\ req' = [req EXCEPT ![r].pc = "done"]
    /\ UNCHANGED <<calc, variant, telemetry, locations, deviceLatest, tasks, notifications, offered, lastUpsert, redelivered,
                   payloadOrderTracking, orderCheck>>

\* build "critical", critical event: Promise.all([saveTelemetry, saveLocation]);
\* the ids are kept only when both inserts succeed
CriticalSave(r) ==
    /\ variant = "critical"
    /\ req[r].pc = "criticalSave"
    /\ \E tOk, lOk \in BOOLEAN :
          LET n == (IF tOk THEN 0 ELSE 1) + (IF lOk THEN 0 ELSE 1) IN
          /\ faults + redelivered + n <= MaxFaults
          /\ faults' = faults + n
          /\ telemetry' = IF tOk THEN saveTelemetry(telemetry,
                                        transformToSensorPayload(req[r].call.body))
                          ELSE telemetry
          /\ locations' = IF lOk THEN saveLocation(locations,
                                        transformToLocationPayload(req[r].call.body))
                          ELSE locations
          /\ req' = IF tOk /\ lOk
                    THEN [req EXCEPT ![r].telemetryId = Len(telemetry) + 1,
                                     ![r].locationId = Len(locations) + 1,
                                     ![r].pc = "criticalUpdate"]
                    ELSE [req EXCEPT ![r].pc = "send"]
    /\ UNCHANGED <<calc, variant, rawPayloads, deviceLatest, tasks, notifications, rowOwner, offered, lastUpsert, redelivered,
                   payloadOrderTracking, orderCheck>>

\* build "critical": updateDeviceLatest(imei, id, ts, telemetryId, locationId),
\* which updates the references only; errors are swallowed
CriticalUpdateLatest(r) ==
    /\ variant = "critical"
    /\ req[r].pc = "criticalUpdate"
    /\ \/ /\ deviceLatest' = updateDeviceLatestReferences(deviceLatest,
                 req[r].call.body.DeviceId, req[r].telemetryId, req[r].locationId)
          /\ UNCHANGED faults
       \/ /\ CanFail
          /\ faults' = faults + 1
          /\ UNCHANGED deviceLatest
    /\ req' = [req EXCEPT ![r].pc = "send"]
    /\ UNCHANGED <<calc, variant, rawPayloads, telemetry, locations, tasks, notifications,
                   rowOwner, offered, lastUpsert, redelivered,
                   payloadOrderTracking, orderCheck>>

\* build "critical": await inngest.send; accepted -> 200 (event id recorded in
\* the background), rejected -> the failure branch
SendAwaited(r) ==
    /\ variant = "critical"
    /\ req[r].pc = "send"
    /\ \/ /\ tasks' = Append(tasks, NewTask(r))
          /\ req' = [req EXCEPT ![r].inngestEventId = Len(tasks) + 1,
                                ![r].response = Response(200, "", req[r].rawPayloadId, <<>>),
                                ![r].pc = "recordEvent"]
          /\ UNCHANGED faults
       \/ /\ CanFail
          /\ faults' = faults + 1
          /\ req' = [req EXCEPT ![r].pc = "markFailed", ![r].sendRejected = TRUE]
          /\ UNCHANGED tasks
    /\ UNCHANGED <<calc, variant, rawPayloads, telemetry, locations, deviceLatest,
                   notifications, rowOwner, offered, lastUpsert, redelivered,
                   payloadOrderTracking, orderCheck>>

\* build "critical", dispatch rejected: storeRawPayload(body, undefined, 'failed')
\* (failure logged), then the 503 response
MarkFailed(r) ==
    /\ variant = "critical"
    /\ req[r].pc = "markFailed"
    /\ \/ /\ rawPayloads' = storeRawPayload(rawPayloads, req[r].call.body, <<>>, "failed", None)
          /\ rowOwner' = Append(rowOwner, r)
          /\ UNCHANGED faults
       \/ /\ CanFail
          /\ faults' = faults + 1
          /\ UNCHANGED <<rawPayloads, rowOwner>>
    /\ req' = Respond(r, 503, "Processing error", req[r].rawPayloadId, <<>>, "done")
    /\ UNCHANGED <<calc, variant, telemetry, locations, deviceLatest, tasks, notifications, offered, lastUpsert, redelivered,
                   payloadOrderTracking, orderCheck>>

---------------------------------------------------------------------------
(* Cold path: processTiveWebhook, one run per delivery of a task *)

TaskIds == 1..Len(tasks)

\* variant: the error of the step is logged and the run goes on
JobFailsSwallowed(t) ==
    [tasks EXCEPT ![t].pc = "updateLatest"]

\* variant: the dispatcher grants one retry more than configured
JobFailsOneMoreRetry(t) ==
    [tasks EXCEPT ![t].attempts = @ + 1,
                  ![t].pc = IF tasks[t].attempts + 1 <= retries + 1 THEN "queued"
                            ELSE "exhausted"]

\* a throwing step fails the run; the dispatcher runs the job again, at most
\* `retries` times, then gives the task up
JobFails(t) ==
    [tasks EXCEPT ![t].attempts = @ + 1,
                  ![t].pc = IF tasks[t].attempts + 1 <= retries THEN "queued" ELSE "exhausted"]

\* steps transform-sensor and transform-location (pure): a throw fails the run
JobTransformFails(t) ==
    /\ tasks[t].pc = "queued"
    /\ transformThrows(tasks[t].payload)
    /\ tasks' = JobFails(t)
    /\ UNCHANGED <<calc, variant, rawPayloads, telemetry, locations, deviceLatest, req,
                   notifications, faults, rowOwner, offered, lastUpsert, redelivered,
                   payloadOrderTracking, orderCheck>>

\* variant: the job skips its inserts for every critical event, ids or not
HasCriticalIdsUnchecked(t) ==
    /\ variant = "critical"
    /\ tasks[t].is_critical

\* ids handed over by the hot path of build "critical"
HasCriticalIds(t) ==
    /\ variant = "critical"
    /\ tasks[t].is_critical
    /\ tasks[t].telemetry_id # None
    /\ tasks[t].location_id # None

\* step save-normalized-data: Promise.all([saveTelemetry, saveLocation]);
\* either insert may commit while the other fails, and then the step throws
JobSave(t) ==
    /\ tasks[t].pc = "queued"
    /\ ~transformThrows(tasks[t].payload)
    /\ IF HasCriticalIds(t)
       THEN /\ tasks' = [tasks EXCEPT ![t].telemetryId = tasks[t].telemetry_id,
                                      ![t].locationId = tasks[t].location_id,
                                      ![t].pc = "updateStatus"]
            /\ UNCHANGED <<telemetry, locations, faults>>
       ELSE \E tOk, lOk \in BOOLEAN :
              LET n == (IF tOk THEN 0 ELSE 1) + (IF lOk THEN 0 ELSE 1) IN
              /\ faults + redelivered + n <= MaxFaults
              /\ faults' = faults + n
              /\ telemetry' = IF tOk THEN saveTelemetry(telemetry,
                                            transformToSensorPayload(tasks[t].payload))
                              ELSE telemetry
              /\ locations' = IF lOk THEN saveLocation(locations,
                                            transformToLocationPayload(tasks[t].payload))
                              ELSE locations
              /\ tasks' = IF tOk /\ lOk
                          THEN [tasks EXCEPT ![t].telemetryId = Len(telemetry) + 1,
                                             ![t].locationId = Len(locations) + 1,
                                             ![t].pc = "updateLatest"]
                          ELSE JobFails(t)
    /\ UNCHANGED <<calc, variant, rawPayloads, deviceLatest, req, notifications, rowOwner, offered, lastUpsert, redelivered,
                   payloadOrderTracking, orderCheck>>

\* step update-device-latest(-references): references only, errors swallowed
JobUpdateLatest(t) ==
    /\ tasks[t].pc = "updateLatest"
    /\ \/ /\ deviceLatest' = updateDeviceLatestReferences(deviceLatest,
                 transformToSensorPayload(tasks[t].payload).device_imei,
                 tasks[t].telemetryId, tasks[t].locationId)
          /\ UNCHANGED faults
       \/ /\ CanFail
          /\ faults' = faults + 1
          /\ UNCHANGED deviceLatest
    /\ tasks' = [tasks EXCEPT ![t].pc = "updateStatus"]
    /\ UNCHANGED <<calc, variant, rawPayloads, telemetry, locations, req, notifications,
                   rowOwner, offered, lastUpsert, redelivered,
                   payloadOrderTracking, orderCheck>>

\* step update-raw-status: updateRawPayloadStatus(raw_id, 'completed'), errors swallowed
JobUpdateStatus(t) ==
    /\ tasks[t].pc = "updateStatus"
    /\ \/ /\ tasks[t].raw_id \in 1..Len(rawPayloads)
          /\ rawPayloads' = updateRawPayloadStatus(rawPayloads, tasks[t].raw_id, "completed")
          /\ UNCHANGED faults
       \/ /\ CanFail
          /\ faults' = faults + 1
          /\ UNCHANGED rawPayloads
    /\ tasks' = [tasks EXCEPT ![t].pc = "done"]
    /\ UNCHANGED <<calc, variant, telemetry, locations, deviceLatest, req, notifications,
                   rowOwner, offered, lastUpsert, redelivered,
                   payloadOrderTracking, orderCheck>>

\* at-least-once delivery: a completed task is delivered again and runs from the start
JobRedeliver(t) ==
    /\ tasks[t].pc = "done"
    /\ faults + redelivered < MaxFaults
    /\ redelivered' = redelivered + 1
    /\ tasks' = [tasks EXCEPT ![t].pc = "queued", ![t].attempts = 0,
                              ![t].telemetryId = None, ![t].locationId = None]
    /\ UNCHANGED <<calc, variant, rawPayloads, telemetry, locations, deviceLatest, req,
                   notifications, faults, rowOwner, offered, lastUpsert,
                   payloadOrderTracking, orderCheck>>

---------------------------------------------------------------------------

Next ==
    \/ \E r \in Requests, c \in Calls : Post(r, c)
    \/ \E r \in Requests : StoreInvalid(r)
    \/ \E r \in Requests : Notify(r)
    \/ \E r \in Requests : StoreAudit(r)
    \/ \E r \in Requests : UpsertLatest(r)
    \/ \E r \in Requests : SendSettles(r)
    \/ \E r \in Requests : RecordEventId(r)
    \/ \E r \in Requests : CriticalSave(r)
    \/ \E r \in Requests : CriticalUpdateLatest(r)
    \/ \E r \in Requests : SendAwaited(r)
    \/ \E r \in Requests : MarkFailed(r)
    \/ \E t \in TaskIds : JobSave(t)
    \/ \E t \in TaskIds : JobUpdateLatest(t)
    \/ \E t \in TaskIds : JobUpdateStatus(t)
    \/ \E t \in TaskIds : JobRedeliver(t)

Spec == Init /\ [][Next]_vars

SpecTwoClasses == InitTwoClasses /\ [][Next]_vars

\* a document whose transformation throws, in the hot path and in every run of the job
InitThrowing == InitWith({PayloadB, PayloadBadLat}, {PayloadOddMethod, PayloadBadLat})

NextThrowing == Next \/ \E t \in TaskIds : JobTransformFails(t)

SpecThrowing == InitThrowing /\ [][NextThrowing]_vars

\* any step of the handler of call r, whatever its outcome
AnyHandlerStep(r) ==
    \/ StoreInvalid(r) \/ Notify(r) \/ StoreAudit(r) \/ UpsertLatest(r) \/ SendSettles(r)
    \/ RecordEventId(r) \/ CriticalSave(r) \/ CriticalUpdateLatest(r) \/ SendAwaited(r)
    \/ MarkFailed(r)

\* any step of a run of task t, whatever its outcome
AnyJobStep(t) ==
    /\ t \in TaskIds
    /\ JobTransformFails(t) \/ JobSave(t) \/ JobUpdateLatest(t) \/ JobUpdateStatus(t)

\* handlers and jobs are scheduled fairly while operations may be rejected
SpecThrowingFair ==
    /\ InitThrowing /\ [][NextThrowing]_vars
    /\ \A r \in Requests : WF_vars(AnyHandlerStep(r))
    /\ \A t \in Requests : WF_vars(AnyJobStep(t))     \* at most one task per call

\* step save-normalized-data while the database is unreachable: both inserts
\* are rejected, in this run and in every later one
JobSaveRejected(t) ==
    /\ tasks[t].pc = "queued"
    /\ ~transformThrows(tasks[t].payload)
    /\ ~HasCriticalIds(t)
    /\ tasks' = JobFails(t)
    /\ UNCHANGED <<calc, variant, rawPayloads, telemetry, locations, deviceLatest, req,
                   notifications, faults, rowOwner, offered, lastUpsert, redelivered,
                   payloadOrderTracking, orderCheck>>

NextOutage == NextThrowing \/ \E t \in TaskIds : JobSaveRejected(t)

\* tasks whose transformation throws and tasks whose inserts are rejected, run after run
SpecOutage == InitThrowing /\ [][NextOutage]_vars

SpecTwoDevices == InitTwoDevices /\ [][Next]_vars

\* arrivals that exercise the size check and the parser
InitSizes ==
    InitOffering([r \in Requests |->
        IF r = 1 THEN CallsWith({PayloadB, PayloadBadLat})
                 ELSE CallsWith({PayloadBadLat}) \cup {UndeclaredOversize, MalformedOversize}])

SpecSizes == InitSizes /\ [][Next]_vars

\* The storage build of index.ts:1-440 (pg). Its two save statements name
\* (device_imei, ts) as conflict target: a reading whose key is stored already
\* overwrites the value columns of that row, any other reading is inserted.
pgSaveTelemetry(rows, sp) ==
    IF \E i \in 1..Len(rows) : rows[i].deviceImei = sp.device_imei /\ rows[i].ts = sp.timestamp
    THEN [i \in 1..Len(rows) |->
            IF rows[i].deviceImei = sp.device_imei /\ rows[i].ts = sp.timestamp
            THEN [rows[i] EXCEPT !.temperature = sp.temperature]
            ELSE rows[i]]
    ELSE Append(rows, [deviceImei |-> sp.device_imei, deviceId |-> sp.device_id,
                       ts |-> sp.timestamp, temperature |-> sp.temperature])

pgSaveLocation(rows, lp) ==
    IF \E i \in 1..Len(rows) : rows[i].deviceImei = lp.device_imei /\ rows[i].ts = lp.timestamp
    THEN [i \in 1..Len(rows) |->
            IF rows[i].deviceImei = lp.device_imei /\ rows[i].ts = lp.timestamp
            THEN [rows[i] EXCEPT !.latitude = lp.latitude, !.longitude = lp.longitude,
                                 !.locationSource = lp.location_source]
            ELSE rows[i]]
    ELSE saveLocation(rows, lp)

\* a second reading of the device and second of PayloadA, with other values
PayloadAResent ==
    [PayloadA EXCEPT !.Celsius = 12345678, !.Latitude = 41000000, !.LocationMethod = "gps"]

PgDocuments == {PayloadA, PayloadAResent, PayloadB, PayloadC}

PgSaveTelemetry(d) ==
    /\ telemetry' = pgSaveTelemetry(telemetry, transformToSensorPayload(d))
    /\ UNCHANGED <<calc, variant, rawPayloads, locations, deviceLatest, req, tasks, notifications,
                   faults, rowOwner, offered, lastUpsert, redelivered,
                   payloadOrderTracking, orderCheck>>

PgSaveLocation(d) ==
    /\ locations' = pgSaveLocation(locations, transformToLocationPayload(d))
    /\ UNCHANGED <<calc, variant, rawPayloads, telemetry, deviceLatest, req, tasks, notifications,
                   faults, rowOwner, offered, lastUpsert, redelivered,
                   payloadOrderTracking, orderCheck>>

InitPg == InitOffering([r \in Requests |-> {}])

NextPg ==
    \/ \E d \in PgDocuments : PgSaveTelemetry(d)
    \/ \E d \in PgDocuments : PgSaveLocation(d)

SpecPg == InitPg /\ [][NextPg]_vars

---------------------------------------------------------------------------
(* The build of route.ts:45-243 with out-of-order tracking (pg storage) *)

\* pg updateDeviceLatest: INSERT .. ON CONFLICT (device_imei) DO UPDATE SET
\* every snapshot column; the reference columns are not named
updateDeviceLatest(table, deviceImei, deviceId, timestamp, sp, lp) ==
    updateDeviceLatestCritical(table, deviceImei, deviceId, timestamp, sp, lp)

\* checkAndUpdatePayloadOrder, the verdict on the row the SELECT returned
isOutOfOrder(selected, timestamp) ==
    selected.present /\ selected.last_timestamp # 0 /\ timestamp < selected.last_timestamp

\* checkAndUpdatePayloadOrder, the statement that follows the SELECT: the
\* INSERT .. ON CONFLICT DO UPDATE SET last_timestamp when no row was
\* returned, the UPDATE of out_of_order_count when the payload is out of
\* order, the UPDATE of last_timestamp otherwise (no row matched: no effect)
orderWrite(table, selected, deviceImei, timestamp) ==
    IF ~selected.present
    THEN [table EXCEPT ![deviceImei].present = TRUE, ![deviceImei].last_timestamp = timestamp]
    ELSE IF ~table[deviceImei].present THEN table
    ELSE IF isOutOfOrder(selected, timestamp)
    THEN [table EXCEPT ![deviceImei].out_of_order_count = @ + 1]
    ELSE [table EXCEPT ![deviceImei].last_timestamp = timestamp]

\* a third reading of the device of PayloadA, older than PayloadB
PayloadOlder == [PayloadA EXCEPT !.EntryTimeEpoch = Now - 2]

OrderDocs == {PayloadA, PayloadB, PayloadOlder, PayloadC}

\* steps 1-4: the call passes authentication, size check, parser and
\* validator, and its audit row is stored as pending
FirstBuildStore(r) ==
    /\ variant = "first"
    /\ req[r].pc = "idle"
    /\ \E c \in offered[r] :
         \/ /\ rawPayloads' = storeRawPayload(rawPayloads, c.body, <<>>, "pending", None)
            /\ rowOwner' = Append(rowOwner, r)
            /\ req' = [req EXCEPT ![r].call = c, ![r].rawPayloadId = Len(rawPayloads) + 1,
                                   ![r].pc = "checkOrder"]
            /\ UNCHANGED faults
         \/ /\ CanFail
            /\ faults' = faults + 1
            /\ req' = [Respond(r, 503, "Database error", None, <<>>, "done") EXCEPT ![r].call = c]
            /\ UNCHANGED <<rawPayloads, rowOwner>>
    /\ UNCHANGED <<calc, variant, telemetry, locations, deviceLatest, tasks, notifications,
                   offered, lastUpsert, redelivered, payloadOrderTracking, orderCheck>>

\* step 5, checkAndUpdatePayloadOrder(body.DeviceId, body.EntryTimeEpoch):
\* the SELECT; an error is caught by the handler, which goes on
OrderSelect(r) ==
    /\ req[r].pc = "checkOrder"
    /\ \/ /\ orderCheck' = [orderCheck EXCEPT
                                ![r].selected = payloadOrderTracking[req[r].call.body.DeviceId]]
          /\ req' = [req EXCEPT ![r].pc = "writeOrder"]
          /\ UNCHANGED faults
       \/ /\ CanFail
          /\ faults' = faults + 1
          /\ req' = [req EXCEPT ![r].pc = "updateLatest"]
          /\ UNCHANGED orderCheck
    /\ UNCHANGED <<calc, variant, rawPayloads, telemetry, locations, deviceLatest, tasks,
                   notifications, rowOwner, offered, lastUpsert, redelivered,
                   payloadOrderTracking>>

\* step 5, the statement after the SELECT and the verdict handed to the handler
OrderWrite(r) ==
    /\ req[r].pc = "writeOrder"
    /\ LET body == req[r].call.body IN
       \/ /\ payloadOrderTracking' = orderWrite(payloadOrderTracking, orderCheck[r].selected,
                                                 body.DeviceId, body.EntryTimeEpoch)
          /\ orderCheck' = [orderCheck EXCEPT ![r].isOutOfOrder =
                                isOutOfOrder(orderCheck[r].selected, body.EntryTimeEpoch)]
          /\ UNCHANGED faults
       \/ /\ CanFail
          /\ faults' = faults + 1
          /\ UNCHANGED <<payloadOrderTracking, orderCheck>>
    /\ req' = [req EXCEPT ![r].pc = "updateLatest"]
    /\ UNCHANGED <<calc, variant, rawPayloads, telemetry, locations, deviceLatest, tasks,
                   notifications, rowOwner, offered, lastUpsert, redelivered>>

\* steps 6-7: the transformation, then updateDeviceLatest with
\* body.EntryTimeEpoch; a failure of either is logged and the handler goes on
FirstBuildUpdateLatest(r) ==
    /\ req[r].pc = "updateLatest"
    /\ LET body == req[r].call.body IN
       \/ /\ ~transformThrows(body)
          /\ deviceLatest' = updateDeviceLatest(deviceLatest, body.DeviceId,
                                  transformToSensorPayload(body).device_id, body.EntryTimeEpoch,
                                  transformToSensorPayload(body), transformToLocationPayload(body))
          /\ lastUpsert' = [lastUpsert EXCEPT ![body.DeviceId] = r]
          /\ UNCHANGED faults
       \/ /\ transformThrows(body)
          /\ UNCHANGED <<deviceLatest, lastUpsert, faults>>
       \/ /\ ~transformThrows(body)
          /\ CanFail
          /\ faults' = faults + 1
          /\ UNCHANGED <<deviceLatest, lastUpsert>>
    /\ req' = [req EXCEPT ![r].pc = "send"]
    /\ UNCHANGED <<calc, variant, rawPayloads, telemetry, locations, tasks, notifications,
                   rowOwner, offered, redelivered, payloadOrderTracking, orderCheck>>

\* steps 8-9: inngest.send is awaited; accepted: 200 and the event id is
\* recorded in the background; rejected: a row with status failed and 503
FirstBuildSend(r) ==
    /\ req[r].pc = "send"
    /\ \/ /\ tasks' = Append(tasks, NewTask(r))
          /\ req' = [Respond(r, 200, "", req[r].rawPayloadId, <<>>, "recordEvent")
                       EXCEPT ![r].inngestEventId = Len(tasks) + 1]
          /\ UNCHANGED <<faults, rawPayloads, rowOwner>>
       \/ /\ CanFail
          /\ faults' = faults + 1
          /\ rawPayloads' = storeRawPayload(rawPayloads, req[r].call.body, <<>>, "failed", None)
          /\ rowOwner' = Append(rowOwner, r)
          /\ req' = [Respond(r, 503, "Processing error", req[r].rawPayloadId, <<>>, "done")
                       EXCEPT ![r].sendRejected = TRUE]
          /\ UNCHANGED tasks
    /\ UNCHANGED <<calc, variant, telemetry, locations, deviceLatest, notifications, offered,
                   lastUpsert, redelivered, payloadOrderTracking, orderCheck>>

\* two calls with valid readings, of one device or of two, in any order of timestamps
InitFirstBuild ==
    /\ variant = "first"
    /\ offered = [r \in Requests |-> { Call(GoodKey, NoLen, TRUE, d) : d \in OrderDocs }]
    /\ rawPayloads = <<>>
    /\ telemetry = <<>>
    /\ locations = <<>>
    /\ deviceLatest = {}
    /\ req = [r \in Requests |-> IdleReq]
    /\ tasks = <<>>
    /\ notifications = <<>>
    /\ faults = 0
    /\ rowOwner = <<>>
    /\ lastUpsert = [d \in {Imei1, Imei2} |-> None]
    /\ redelivered = 0
    /\ calc = NoCalc
    /\ payloadOrderTracking = [d \in {Imei1, Imei2} |-> NoOrderRow]
    /\ orderCheck = [r \in Requests |-> NoOrderCheck]

NextFirstBuild ==
    \E r \in Requests :
        \/ FirstBuildStore(r)
        \/ OrderSelect(r)
        \/ OrderWrite(r)
        \/ FirstBuildUpdateLatest(r)
        \/ FirstBuildSend(r)
        \/ RecordEventId(r)

SpecFirstBuild == InitFirstBuild /\ [][NextFirstBuild]_vars

---------------------------------------------------------------------------
(* The pure functions, called on their own: the initial state holds the   *)
(* argument of one call, the action of the function puts its result.      *)

PureCall(f, a) == [fn |-> f, done |-> FALSE, arg |-> a, out |-> "none"]

Returned(f) == calc.fn = f /\ calc.done

\* JSON documents that are not objects: every property read gives undefined
JsonArray == [Doc("<array>", "<array>", 0, 0, 0, 0, "<absent>") EXCEPT !.has = {}]
JsonNumber == [Doc("<number>", "<number>", 0, 0, 0, 0, "<absent>") EXCEPT !.has = {}]

\* the object that holds a field (a top-level field holds itself)
Parent(f) ==
    IF f = "Temperature.Celsius" THEN "Temperature"
    ELSE IF f \in {"Location.Latitude", "Location.Longitude"} THEN "Location"
    ELSE f

\* a field can be present only inside an object that is present
WellStructured(h, m) ==
    /\ m \subseteq h
    /\ \A f \in h : Parent(f) = f \/ (Parent(f) \in h /\ Parent(f) \notin m)

\* PayloadA with any set of required fields left out and at most one field
\* of the wrong type
DefectiveDocs ==
    { [PayloadA EXCEPT !.has = h, !.mistyped = m] :
        <<h, m>> \in { hm \in (SUBSET AllFields) \X ({{}} \cup {{f} : f \in AllFields}) :
                         WellStructured(hm[1], hm[2]) } }

\* values at, next to and just outside the end points of a range
Around(lo, hi, step) ==
    {lo * Micro - step, lo * Micro - 1, lo * Micro, lo * Micro + 1, 0,
     hi * Micro - 1, hi * Micro, hi * Micro + 1, hi * Micro + step}

\* steps of the boundary tests: 0.01 degrees Celsius, 0.0001 degrees of arc
RangeDocs ==
    { [PayloadA EXCEPT !.Celsius = c, !.Latitude = la, !.Longitude = lo] :
        c \in Around(TEMP_MIN, TEMP_MAX, Micro \div 100),
        la \in Around(LATITUDE_MIN, LATITUDE_MAX, Micro \div 10000),
        lo \in Around(LONGITUDE_MIN, LONGITUDE_MAX, Micro \div 10000) }

WithOptional(p, f, mistyped) ==
    [p EXCEPT !.has = @ \cup {f}, !.mistyped = IF mistyped THEN @ \cup {f} ELSE @]

OptionalDocs ==
    { [WithOptional(PayloadA, "Humidity.Percentage", t) EXCEPT !.Humidity = v] :
        v \in Around(HUMIDITY_MIN, HUMIDITY_MAX, 1), t \in BOOLEAN }
    \cup { [WithOptional(PayloadA, "Battery.Percentage", t) EXCEPT !.Battery = v] :
        v \in Around(BATTERY_MIN, BATTERY_MAX, 1), t \in BOOLEAN }
    \cup { [WithOptional(PayloadA, "Cellular.Dbm", t) EXCEPT !.Dbm = v] :
        v \in Around(DBM_MIN, DBM_MAX, 1), t \in BOOLEAN }

ValidatorDocs ==
    {JsonNull, JsonArray, JsonNumber} \cup Documents \cup DefectiveDocs
        \cup RangeDocs \cup OptionalDocs

\* validateTivePayload(payload): a result, or the TypeError of a property read
Validate ==
    /\ calc.fn = "validateTivePayload" /\ ~calc.done
    /\ calc' = [calc EXCEPT !.done = TRUE,
                            !.out = IF validateThrows(calc.arg)
                                    THEN [threw |-> TRUE, valid |-> FALSE, errors |-> <<>>]
                                    ELSE [threw |-> FALSE,
                                          valid |-> validateTivePayload(calc.arg).valid,
                                          errors |-> validateTivePayload(calc.arg).errors]]
    /\ UNCHANGED <<variant, rawPayloads, telemetry, locations, deviceLatest, req, tasks,
                   notifications, faults, rowOwner, offered, lastUpsert, redelivered,
                   payloadOrderTracking, orderCheck>>

\* PayloadA with the optional fields fs present
With(p, fs) == [p EXCEPT !.has = @ \cup fs]

AccelerometerFields ==
    {{}, {"Accelerometer"},
     {"Accelerometer", "Accelerometer.G"},
     {"Accelerometer", "Accelerometer.X", "Accelerometer.Y", "Accelerometer.G"},
     {"Accelerometer", "Accelerometer.X", "Accelerometer.Y", "Accelerometer.Z"},
     {"Accelerometer", "Accelerometer.X", "Accelerometer.Y", "Accelerometer.Z",
      "Accelerometer.G"}}

\* readings on and next to the halves of the last kept decimal, of both signs
SensorDocs ==
    { [With(PayloadA, fs \cup a) EXCEPT !.Celsius = c, !.Humidity = h, !.Lux = h,
                                        !.AccX = x, !.AccY = y, !.AccZ = 9805, !.AccG = 10005] :
        fs \in {{}, {"Humidity.Percentage", "Light.Lux"}},
        a \in AccelerometerFields,
        c \in {10078125, 10075000, 10074999, -10075000, -10075001, -10074999},
        h \in {45250000, 45249999, 45300000},
        x \in {-5625, -5626, -5624, 5625},
        y \in {-4375, 4375, 0} }

LocationDocs ==
    { [With(PayloadA, fs) EXCEPT !.Meters = m, !.Dbm = d, !.Battery = 65000000] :
        fs \in SUBSET {"Location.Accuracy.Meters", "Cellular.Dbm", "Battery.Percentage"},
        m \in {0, 5 * Micro, 10 * Micro - 1, 10 * Micro, 10 * Micro + 1, 23 * Micro,
               100 * Micro - 1, 100 * Micro, 100 * Micro + 1, 500 * Micro},
        d \in {-85125000, -85125001, -85124999, -63000000} }

\* readings on and next to the limits of the operating ranges
ClassifierDocs ==
    { [With(PayloadA, fs \cup a) EXCEPT !.Celsius = c, !.Humidity = h, !.Battery = b,
                                        !.Dbm = d, !.AccX = xyz[1], !.AccY = xyz[2],
                                        !.AccZ = xyz[3], !.AccG = g] :
        fs \in {{}, {"Humidity.Percentage"}, {"Battery.Percentage", "Cellular.Dbm"},
                {"Humidity.Percentage", "Battery.Percentage", "Cellular.Dbm"}},
        a \in AccelerometerFields,
        c \in {OP_TEMPERATURE_MIN * Micro - 1, OP_TEMPERATURE_MIN * Micro, 5 * Micro,
               OP_TEMPERATURE_MAX * Micro, OP_TEMPERATURE_MAX * Micro + 1},
        h \in {OP_HUMIDITY_MIN * Micro - 1, OP_HUMIDITY_MIN * Micro,
               OP_HUMIDITY_MAX * Micro, OP_HUMIDITY_MAX * Micro + 1},
        b \in {OP_BATTERY_MIN * Micro - 1, OP_BATTERY_MIN * Micro},
        d \in {OP_CELLULAR_DBM_MIN * Micro - 1, OP_CELLULAR_DBM_MIN * Micro},
        xyz \in {<<12000, 16000, 0>>, <<12000, 16000, 1>>, <<-20000, 0, 0>>, <<100, 200, 9800>>},
        g \in {2 * AccUnit, 2 * AccUnit + 1} }

TransformSensor ==
    /\ calc.fn = "transformToSensorPayload" /\ ~calc.done
    /\ calc' = [calc EXCEPT !.done = TRUE, !.out = transformToSensorPayload(calc.arg)]
    /\ UNCHANGED <<variant, rawPayloads, telemetry, locations, deviceLatest, req, tasks,
                   notifications, faults, rowOwner, offered, lastUpsert, redelivered,
                   payloadOrderTracking, orderCheck>>

TransformLocation ==
    /\ calc.fn = "transformToLocationPayload" /\ ~calc.done
    /\ calc' = [calc EXCEPT !.done = TRUE, !.out = transformToLocationPayload(calc.arg)]
    /\ UNCHANGED <<variant, rawPayloads, telemetry, locations, deviceLatest, req, tasks,
                   notifications, faults, rowOwner, offered, lastUpsert, redelivered,
                   payloadOrderTracking, orderCheck>>

\* isCriticalEvent(payload): { isCritical, reasons }
Classify ==
    /\ calc.fn = "isCriticalEvent" /\ ~calc.done
    /\ calc' = [calc EXCEPT !.done = TRUE,
                            !.out = [isCritical |-> isCriticalEvent(calc.arg),
                                     reasons |-> criticalReasons(calc.arg)]]
    /\ UNCHANGED <<variant, rawPayloads, telemetry, locations, deviceLatest, req, tasks,
                   notifications, faults, rowOwner, offered, lastUpsert, redelivered,
                   payloadOrderTracking, orderCheck>>

\* timestamps in seconds and in milliseconds, on and next to the limits of
\* the validator and of normalizeTimestamp
TimestampDocs ==
    { [PayloadA EXCEPT !.EntryTimeEpoch = ts] :
        ts \in {1, Now \div 1000, SECONDS_LIMIT - 1, SECONDS_LIMIT,
                Now - MAX_TIMESTAMP_OFFSET - 1, Now - MAX_TIMESTAMP_OFFSET, Now - 1, Now,
                Now + MAX_TIMESTAMP_OFFSET, Now + MAX_TIMESTAMP_OFFSET + 1} }

\* the timestamps the request handler hands to storage for one payload: those
\* of the two transformed readings, and the third argument of the
\* device_latest update in the build of route.ts:281-467
\* (sensorPayload.timestamp) and in the build of route.ts:45-243 (body.EntryTimeEpoch)
hotPathTimestamps(p) ==
    [valid |-> validateTivePayload(p).valid,
     sensor |-> transformToSensorPayload(p).timestamp,
     location |-> transformToLocationPayload(p).timestamp,
     lastTs |-> transformToSensorPayload(p).timestamp,
     lastTsFirstBuild |-> p.EntryTimeEpoch]

HotPathTimestamps ==
    /\ calc.fn = "hotPathTimestamps" /\ ~calc.done
    /\ calc' = [calc EXCEPT !.done = TRUE, !.out = hotPathTimestamps(calc.arg)]
    /\ UNCHANGED <<variant, rawPayloads, telemetry, locations, deviceLatest, req, tasks,
                   notifications, faults, rowOwner, offered, lastUpsert, redelivered,
                   payloadOrderTracking, orderCheck>>

\* requests as validateApiKey sees them: the configured secret and the headers
AuthRequests ==
    { [secret |-> k, headers |-> Hdr(x, sr[1], sr[2])] :
        k \in {ApiKey, ""},
        x \in {NoHeader, "", ApiKey, "wrong-key"},
        sr \in {<<NoHeader, NoHeader>>}
                \cup ((BearerPrefixes \cup {"", "Basic"}) \X {ApiKey, "wrong-key", ""}) }

Authenticate ==
    /\ calc.fn = "validateApiKey" /\ ~calc.done
    /\ calc' = [calc EXCEPT !.done = TRUE,
                            !.out = validateKey(calc.arg.secret, calc.arg.headers)]
    /\ UNCHANGED <<variant, rawPayloads, telemetry, locations, deviceLatest, req, tasks,
                   notifications, faults, rowOwner, offered, lastUpsert, redelivered,
                   payloadOrderTracking, orderCheck>>

\* GET /api/devices
MAX_LIMIT == 1000
DEFAULT_LIMIT == 100
NoLimit == -1000

\* parseInt(searchParams.get('limit') || '100', 10)
parseLimit(q) == IF q = NoLimit THEN DEFAULT_LIMIT ELSE q

RECURSIVE OldestFirst(_)
OldestFirst(rows) ==
    IF rows = {} THEN <<>>
    ELSE LET first == CHOOSE x \in rows : \A y \in rows : x.updated_at <= y.updated_at
         IN  <<first>> \o OldestFirst(rows \ {first})

RECURSIVE NewestFirst(_)
NewestFirst(rows) ==
    IF rows = {} THEN <<>>
    ELSE LET first == CHOOSE x \in rows : \A y \in rows : x.updated_at >= y.updated_at
         IN  <<first>> \o NewestFirst(rows \ {first})

\* variant: ORDER BY dl.updated_at ASC
queryDevicesOldestFirst(table, limit) ==
    SubSeq(OldestFirst(table), 1, IF limit < Cardinality(table) THEN limit ELSE Cardinality(table))

\* ... FROM device_latest dl ... ORDER BY dl.updated_at DESC LIMIT ${limit}
queryDevices(table, limit) ==
    SubSeq(NewestFirst(table), 1, IF limit < Cardinality(table) THEN limit ELSE Cardinality(table))

ListResponse(status, error, devices, queried) ==
    [status |-> status, error |-> error, devices |-> devices, queried |-> queried]

\* the GET handler; db is what the database does with the query
getDevices(a) ==
    LET limit == parseLimit(a.limit) IN
    IF ~a.configured THEN ListResponse(500, "Database not configured", <<>>, FALSE)
    ELSE IF limit > MAX_LIMIT THEN ListResponse(400, "Invalid limit", <<>>, FALSE)
    ELSE IF a.db = "timeout" THEN ListResponse(503, "Database timeout", <<>>, TRUE)
    ELSE IF a.db = "error" \/ limit < 0      \* LIMIT must not be negative
         THEN ListResponse(500, "Internal server error", <<>>, TRUE)
    ELSE ListResponse(200, "", queryDevices(a.table, limit), TRUE)

Stamps == 1..3

\* device_latest: one row per device, updated at distinct instants
DeviceTables ==
    { { [device_imei |-> d, updated_at |-> f[d]] : d \in ds } :
        <<ds, f>> \in { df \in (SUBSET {Imei1, Imei2, "863257063350599"})
                               \X [{Imei1, Imei2, "863257063350599"} -> Stamps] :
                         \A d1, d2 \in df[1] : d1 # d2 => df[2][d1] # df[2][d2] } }

ListRequests ==
    [limit : {NoLimit, -1, 0, 1, 2, 3, MAX_LIMIT, MAX_LIMIT + 1, 2 * MAX_LIMIT},
     table : DeviceTables, configured : BOOLEAN, db : {"ok", "timeout", "error"}]

ListDevices ==
    /\ calc.fn = "GET /api/devices" /\ ~calc.done
    /\ calc' = [calc EXCEPT !.done = TRUE, !.out = getDevices(calc.arg)]
    /\ UNCHANGED <<variant, rawPayloads, telemetry, locations, deviceLatest, req, tasks,
                   notifications, faults, rowOwner, offered, lastUpsert, redelivered,
                   payloadOrderTracking, orderCheck>>

InitPure ==
    /\ InitStorage([r \in Requests |-> {}])
    /\ variant = "snapshot"
    /\ \/ calc \in {PureCall("validateTivePayload", d) : d \in ValidatorDocs}
       \/ calc \in {PureCall("transformToSensorPayload", d) : d \in SensorDocs}
       \/ calc \in {PureCall("transformToLocationPayload", d) : d \in LocationDocs}
       \/ calc \in {PureCall("isCriticalEvent", d) : d \in ClassifierDocs}
       \/ calc \in {PureCall("GET /api/devices", a) : a \in ListRequests}
       \/ calc \in {PureCall("validateApiKey", a) : a \in AuthRequests}
       \/ calc \in {PureCall("hotPathTimestamps", d) : d \in TimestampDocs}

NextPure ==
    \/ Validate
    \/ TransformSensor
    \/ TransformLocation
    \/ Classify
    \/ ListDevices
    \/ Authenticate
    \/ HotPathTimestamps

SpecPure == InitPure /\ [][NextPure]_vars

---------------------------------------------------------------------------
\* the build of route.ts:281-467 with the job of part_011, scheduled fairly
\* and free of rejected operations: a handler that can take its next step
\* takes it, and so does a queued task; events may still be delivered again
InitSnapshot ==
    /\ InitOffering([r \in Requests |->
            IF r = 1 THEN {Call(GoodKey, NoLen, TRUE, PayloadB)}
                     ELSE {Call(GoodKey, NoLen, TRUE, d) : d \in {PayloadA, PayloadBadLat}}
                          \cup {Call(Hdr(NoHeader, NoHeader, NoHeader), NoLen, TRUE, PayloadA)}])
    /\ variant = "snapshot"

\* a step of the handler or the job in which no operation is rejected
Quiet(A) == A /\ faults' = faults

NextSnapshot ==
    \/ \E r \in Requests, c \in Calls : Post(r, c)
    \/ \E r \in Requests : Quiet(StoreInvalid(r))
    \/ \E r \in Requests : Quiet(Notify(r))
    \/ \E r \in Requests : Quiet(StoreAudit(r))
    \/ \E r \in Requests : Quiet(UpsertLatest(r))
    \/ \E r \in Requests : Quiet(SendSettles(r))
    \/ \E r \in Requests : Quiet(RecordEventId(r))
    \/ \E t \in TaskIds : Quiet(JobSave(t))
    \/ \E t \in TaskIds : Quiet(JobUpdateLatest(t))
    \/ \E t \in TaskIds : Quiet(JobUpdateStatus(t))
    \/ \E t \in TaskIds : JobRedeliver(t)

HandlerStep(r) ==
    Quiet(\/ StoreInvalid(r) \/ Notify(r) \/ StoreAudit(r)
          \/ UpsertLatest(r) \/ SendSettles(r) \/ RecordEventId(r))

JobStep(t) ==
    /\ t \in TaskIds
    /\ Quiet(JobSave(t) \/ JobUpdateLatest(t) \/ JobUpdateStatus(t))

Fairness ==
    /\ \A r \in Requests : WF_vars(HandlerStep(r))
    /\ \A t \in Requests : WF_vars(JobStep(t))     \* at most one task per call

SpecSnapshotFair == InitSnapshot /\ [][NextSnapshot]_vars /\ Fairness

---------------------------------------------------------------------------
(* Vocabulary of the properties *)

\* the call presented the configured secret (X-Api-Key, or Bearer when no X-Api-Key)
PresentsSecret(h) ==
    \/ h.xApiKey = ApiKey
    \/ h.xApiKey = NoHeader /\ h.authScheme = "Bearer" /\ h.authRest = ApiKey

Posted(r) == req[r].pc # "idle"
Finished(r) == req[r].pc = "done"

\* the call passed steps 1-3 and the validator returned a verdict on its body
ReachedValidator(r) ==
    /\ Posted(r)
    /\ PresentsSecret(req[r].call.headers)
    /\ req[r].call.contentLength <= MAX_PAYLOAD_SIZE
    /\ req[r].call.wellFormed
    /\ ~validateThrows(req[r].call.body)

\* documents of the model that satisfy every rule of section 4.1
WellFormedDocs == {PayloadA, PayloadB, PayloadC, PayloadOddMethod, PayloadHot}

ValidCall(r) == ReachedValidator(r) /\ req[r].call.body \in WellFormedDocs
InvalidCall(r) == ReachedValidator(r) /\ req[r].call.body \notin WellFormedDocs

RowsBy(r) == { i \in 1..Len(rawPayloads) : rowOwner[i] = r }
TasksBy(r) == { t \in TaskIds : tasks[t].by = r }
NotificationsBy(r) == { n \in 1..Len(notifications) : notifications[n].by = r }
WroteLatest(r) == \E d \in DOMAIN lastUpsert : lastUpsert[d] = r

\* no storage write, notification or dispatch is attributed to call r
NoProcessing(r) ==
    /\ RowsBy(r) = {}
    /\ TasksBy(r) = {}
    /\ NotificationsBy(r) = {}
    /\ ~WroteLatest(r)
    /\ req[r].telemetryId = None /\ req[r].locationId = None

---------------------------------------------------------------------------
(* Properties *)

\* C1 (as stated): once a call that reached the validator has finished, with
\* its background callbacks, and no operation was rejected, exactly one
\* raw_webhook_payloads row was created for it.
C1_ExactlyOneRowPerCall ==
    \A r \in Requests :
        (Finished(r) /\ ReachedValidator(r) /\ faults = 0)
            => Cardinality(RowsBy(r)) = 1

\* C2 (as stated): when inngest.send rejects the event of a valid call whose
\* audit row was stored, the response is 503 and that row has status failed.
C2_DispatchFailureMarksRowFailed ==
    \A r \in Requests :
        (Finished(r) /\ req[r].sendRejected)
            => /\ req[r].response.status = 503
               /\ rawPayloads[req[r].rawPayloadId].status = "failed"

\* C3 (as stated): a 200 response exists only once the dispatcher has accepted
\* a task carrying the id of the call's audit row, which the response reports.
C3_AckOnlyAfterDispatch ==
    \A r \in Requests :
        req[r].response.status = 200
            => /\ req[r].rawPayloadId \in RowsBy(r)
               /\ req[r].response.payload_id = req[r].rawPayloadId
               /\ \E t \in TasksBy(r) : tasks[t].raw_id = req[r].rawPayloadId

\* C4: a call without the secret, or with another key, is answered 401 at
\* once, and no row, DeviceLatest write, notification or task comes from it.
C4_BadKeyRejectedUntouched ==
    \A r \in Requests :
        (Posted(r) /\ ~PresentsSecret(req[r].call.headers))
            => /\ Finished(r)
               /\ req[r].response.status = 401
               /\ req[r].response.payload_id = None
               /\ NoProcessing(r)

C4_Witness ==
    \E r1, r2 \in Requests :
        /\ Finished(r1) /\ req[r1].call.headers.xApiKey = "wrong-key"
        /\ req[r1].response.status = 401
        /\ Finished(r2) /\ req[r2].response.status = 200
        /\ Len(rawPayloads) >= 1

\* the tables and queues that hold what a call leaves behind
Stores == <<rawPayloads, telemetry, locations, deviceLatest, tasks, notifications>>

AuditStoreFailsIn(r) ==
    /\ req[r].pc = "storeAudit"
    /\ req'[r].pc # "storeAudit"
    /\ rawPayloads' = rawPayloads

\* C5: when the audit store of a valid payload fails the call ends with 503,
\* storage is left as it was, and no DeviceLatest write or task ever comes
\* from that call.
C5_AuditStoreFailureFatal ==
    /\ [][\A r \in Requests :
            AuditStoreFailsIn(r)
                => /\ req'[r].pc = "done"
                   /\ req'[r].response.status = 503
                   /\ Stores' = Stores]_vars
    /\ [](\A r \in Requests :
            (ValidCall(r) /\ Finished(r) /\ req[r].rawPayloadId = None)
                => /\ req[r].response.status = 503
                   /\ NoProcessing(r))

C5_Witness ==
    \E r1, r2 \in Requests :
        /\ ValidCall(r1) /\ Finished(r1) /\ req[r1].rawPayloadId = None
        /\ req[r1].response.status = 503
        /\ Finished(r2) /\ req[r2].response.status = 200
        /\ Len(rawPayloads) >= 1

C7_RawPayloadStatusMonotone ==
    [][/\ Len(rawPayloads') >= Len(rawPayloads)
       /\ \A i \in 1..Len(rawPayloads) :
              /\ rawPayloads'[i].payload = rawPayloads[i].payload
              /\ rawPayloads'[i].status # rawPayloads[i].status
                    => /\ rawPayloads[i].status = "pending"
                       /\ rawPayloads'[i].status \in {"completed", "failed"}]_vars

C7_Witness ==
    /\ redelivered > 0
    /\ \E i, j \in 1..Len(rawPayloads) :
          /\ rawPayloads[i].status = "completed"
          /\ rawPayloads[j].status = "failed"
    /\ \A t \in TaskIds : tasks[t].pc = "done"

\* C8: device_latest holds at most one row per device, and the row of a
\* device exists in every state from its first successful upsert on.
C8_OneDeviceLatestRowPerDevice ==
    \A d \in DOMAIN lastUpsert :
        /\ Cardinality(RowsOf(d)) <= 1
        /\ lastUpsert[d] # None => Cardinality(RowsOf(d)) = 1

C8_Witness ==
    /\ Cardinality(deviceLatest) = 2
    /\ \A d \in DOMAIN lastUpsert : lastUpsert[d] # None
    /\ \E row \in deviceLatest : row.latestTelemetryId # None
    /\ \A r \in Requests : Finished(r)

SnapshotOf(body) ==
    LET sp == transformToSensorPayload(body) IN
    Snapshot(sp.device_id, sp.timestamp, sp, transformToLocationPayload(body))

\* C9: valid calls for one device, however they interleave, are all answered
\* 200 when no operation is rejected, and the device's row carries exactly
\* the snapshot of the call whose upsert committed last.
C9_LastUpsertWins ==
    /\ \A r \in Requests :
          (ValidCall(r) /\ Finished(r) /\ faults = 0) => req[r].response.status = 200
    /\ \A d \in DOMAIN lastUpsert :
          lastUpsert[d] # None
            => \A row \in RowsOf(d) :
                  row.snapshot = SnapshotOf(req[lastUpsert[d]].call.body)

\* both upserts succeeded and the earlier arrival's committed last, so the
\* calls overlapped; it carries the older timestamp
C9_Witness ==
    /\ faults = 0
    /\ \A r \in Requests : ValidCall(r) /\ Finished(r) /\ req[r].response.status = 200
    /\ lastUpsert[Imei1] = 1
    /\ req[1].call.body.EntryTimeEpoch < req[2].call.body.EntryTimeEpoch
    /\ \E row \in RowsOf(Imei1) :
          row.snapshot.lastTs = req[1].call.body.EntryTimeEpoch

Quiescent ==
    /\ \A r \in Requests : Finished(r)
    /\ \A t \in TaskIds : tasks[t].pc = "done"

ReferencesMatchSnapshot(row) ==
    /\ row.latestTelemetryId \in 1..Len(telemetry)
    /\ row.latestLocationId \in 1..Len(locations)
    /\ telemetry[row.latestTelemetryId].ts = row.snapshot.lastTs
    /\ telemetry[row.latestTelemetryId].temperature = row.snapshot.lastTemperature
    /\ locations[row.latestLocationId].ts = row.snapshot.lastTs
    /\ locations[row.latestLocationId].latitude = row.snapshot.lastLat
    /\ locations[row.latestLocationId].longitude = row.snapshot.lastLon

\* C10 (as stated): once every call has finished and every task has completed,
\* with no operation rejected, the references of each device_latest row point
\* at the readings of the payload its snapshot came from.
C10_ReferencesCatchUp ==
    (Quiescent /\ faults = 0)
        => \A row \in deviceLatest : ReferencesMatchSnapshot(row)

AuditStored(r) == req[r].rawPayloadId # None

TaskCompletedFor(r) == \E t \in TasksBy(r) : tasks[t].pc = "done"

\* C11 (as stated): when the snapshot upsert of a valid call failed, the call
\* was accepted and its task has completed, a device_latest row exists for
\* the device of the payload.
C11_AsyncPathRestoresRow ==
    \A r \in Requests :
        (ValidCall(r) /\ req[r].upsertRejected /\ req[r].response.status = 200
            /\ TaskCompletedFor(r))
            => RowsOf(req[r].call.body.DeviceId) # {}

\* C12 (as stated): a finished valid call is answered 200 when its audit
\* store and its dispatch succeeded, whatever happened to the transformation
\* and the snapshot upsert, and 503 when its audit store or its dispatch failed.
C12_OnlyAuditAndDispatchAreFatal ==
    \A r \in Requests :
        (ValidCall(r) /\ Finished(r))
            => /\ (AuditStored(r) /\ ~req[r].sendRejected) => req[r].response.status = 200
               /\ (~AuditStored(r) \/ req[r].sendRejected) => req[r].response.status = 503

\* in this step the run of task t ended with an error thrown to the dispatcher
RunFailed(t) ==
    /\ tasks'[t].attempts = tasks[t].attempts + 1
    /\ tasks'[t].pc = IF tasks'[t].attempts <= retries THEN "queued" ELSE "exhausted"

BothReadingsInserted ==
    /\ Len(telemetry') = Len(telemetry) + 1
    /\ Len(locations') = Len(locations) + 1

\* C13: a run of the job fails, and is retried by the dispatcher, when a
\* transformation throws or the readings are not both persisted; once steps
\* 1-3 succeeded the run goes through the reference update and the status
\* update to its success summary whether or not those two writes succeeded.
C13_JobFailurePolicy ==
    [][\A t \in TaskIds :
          tasks'[t] # tasks[t] =>
            /\ (tasks[t].pc = "queued" /\ transformThrows(tasks[t].payload))
                  => RunFailed(t)
            /\ (tasks[t].pc = "queued" /\ ~transformThrows(tasks[t].payload)
                   /\ ~HasCriticalIds(t) /\ ~BothReadingsInserted)
                  => RunFailed(t)
            /\ (tasks[t].pc = "queued" /\ ~transformThrows(tasks[t].payload)
                   /\ (HasCriticalIds(t) \/ BothReadingsInserted))
                  => tasks'[t].pc \in {"updateLatest", "updateStatus"}
            /\ tasks[t].pc = "updateLatest"
                  => tasks'[t].pc = "updateStatus" /\ tasks'[t].attempts = tasks[t].attempts
            /\ tasks[t].pc = "updateStatus"
                  => tasks'[t].pc = "done" /\ tasks'[t].attempts = tasks[t].attempts]_vars

\* a task given up after its transformation threw in every run, and a task
\* that returned its summary although its status update was rejected
C13_Witness ==
    /\ \E t \in TaskIds : tasks[t].pc = "exhausted" /\ tasks[t].attempts = retries + 1
    /\ \E u \in TaskIds :
          /\ tasks[u].pc = "done"
          /\ rawPayloads[tasks[u].raw_id].status = "pending"
          /\ faults = 1

Accepted(r) ==
    /\ req[r].response.status = 200
    /\ AuditStored(r)
    /\ req[r].response.payload_id = req[r].rawPayloadId

SensorReadingOf(p) == saveTelemetry(<<>>, transformToSensorPayload(p))[1]

LocationReadingOf(p) == saveLocation(<<>>, transformToLocationPayload(p))[1]

\* the persist step of task t has gone through in this step
PersistSucceeds(t) ==
    /\ tasks[t].pc = "queued"
    /\ tasks'[t].pc = "updateLatest"

C16_ReadingsAppendOnly ==
    [][/\ \A i \in 1..Len(telemetry) : i <= Len(telemetry') /\ telemetry'[i] = telemetry[i]
       /\ \A i \in 1..Len(locations) : i <= Len(locations') /\ locations'[i] = locations[i]]_vars

\* the persist step has been executed with the payload of task t before
PersistedBefore(t) ==
    /\ \E i \in 1..Len(telemetry) : telemetry[i] = SensorReadingOf(tasks[t].payload)
    /\ \E i \in 1..Len(locations) : locations[i] = LocationReadingOf(tasks[t].payload)

\* C17: a step of the job that has been executed with the same input before
\* leaves storage as it found it: the persist step adds no reading, the
\* references step leaves device_latest alone, the status step leaves the
\* raw row alone (the two transform steps write nothing).
C17_StepsIdempotent ==
    [][\A t \in TaskIds :
          /\ (PersistSucceeds(t) /\ PersistedBefore(t))
                => (telemetry' = telemetry /\ locations' = locations)
          /\ ( /\ tasks[t].pc = "updateLatest" /\ tasks'[t].pc = "updateStatus"
               /\ \A row \in RowsOf(tasks[t].payload.DeviceId) :
                     /\ row.latestTelemetryId = tasks[t].telemetryId
                     /\ row.latestLocationId = tasks[t].locationId )
                => deviceLatest' = deviceLatest
          /\ ( /\ tasks[t].pc = "updateStatus" /\ tasks'[t].pc = "done"
               /\ rawPayloads[tasks[t].raw_id].status = "completed"
               /\ rawPayloads[tasks[t].raw_id].processed )
                => rawPayloads' = rawPayloads]_vars

Authenticated(r) == Posted(r) /\ PresentsSecret(req[r].call.headers)

RejectedAs(r, status, error) ==
    /\ Finished(r)
    /\ req[r].response.status = status
    /\ req[r].response.error = error
    /\ req[r].response.payload_id = None
    /\ NoProcessing(r)

\* C18 (as stated): every authenticated call with a malformed body is
\* answered 400 'Invalid JSON' and leaves no row, notification,
\* DeviceLatest write or task.
C18_MalformedJsonRejected ==
    \A r \in Requests :
        (Authenticated(r) /\ ~req[r].call.wellFormed)
            => RejectedAs(r, 400, "Invalid JSON")

\* C18 (amended): every authenticated call with a malformed body whose
\* declared length is within the limit is answered 400 'Invalid JSON'; one
\* that declares more is answered 413; neither leaves a row, notification,
\* DeviceLatest write or task.
C18_MalformedJsonRejectedWithinLimit ==
    \A r \in Requests :
        (Authenticated(r) /\ ~req[r].call.wellFormed)
            => IF req[r].call.contentLength <= MAX_PAYLOAD_SIZE
               THEN RejectedAs(r, 400, "Invalid JSON")
               ELSE RejectedAs(r, 413, "Payload too large")

C18_Witness ==
    \E r \in Requests :
        /\ Authenticated(r) /\ ~req[r].call.wellFormed
        /\ req[r].call.contentLength = 512
        /\ req[r].response.status = 400
        /\ \E q \in Requests : req[q].response.status = 200 /\ RowsBy(q) # {}

\* C19: every authenticated call whose body is larger than the limit is
\* answered 413 and leaves no row, with or without a Content-Length header.
C19_OversizeRejected ==
    \A r \in Requests :
        (Authenticated(r) /\ req[r].call.size > MAX_PAYLOAD_SIZE)
            => RejectedAs(r, 413, "Payload too large")

\* the next await of the handler of call r settles
Handler(r) ==
    \/ StoreInvalid(r) \/ Notify(r) \/ StoreAudit(r) \/ UpsertLatest(r)
    \/ SendSettles(r) \/ RecordEventId(r) \/ CriticalSave(r)
    \/ CriticalUpdateLatest(r) \/ SendAwaited(r) \/ MarkFailed(r)

\* position in the handler: every step moves forward, there is no loop
PcRank ==
    [idle |-> 0, storeInvalid |-> 1, notify |-> 2, storeAudit |-> 1, upsert |-> 2,
     criticalSave |-> 2, criticalUpdate |-> 3, send |-> 4, sending |-> 4,
     recordEvent |-> 5, markFailed |-> 5, done |-> 6]

Answered(r) == req[r].response # NoResponse

\* each status is sent for its cause only
StatusHasItsCause(r) ==
    LET st == req[r].response.status
        c == req[r].call
    IN  /\ st \in {0, 200, 400, 401, 413, 500, 503}
        /\ st = 401 => ~PresentsSecret(c.headers)
        /\ st = 413 => (PresentsSecret(c.headers) /\ c.contentLength > MAX_PAYLOAD_SIZE)
        /\ st = 400 => (Authenticated(r) /\ (~c.wellFormed \/ InvalidCall(r)))
        /\ st = 503 => (ValidCall(r) /\ (~AuditStored(r) \/ req[r].sendRejected))
        /\ st = 500 => (Authenticated(r) /\ c.wellFormed /\ validateThrows(c.body))
        /\ st = 200 => ValidCall(r)

\* C20: every call is answered once: its handler can always take its next
\* step until it has finished, every step moves it forward, a finished call
\* has an answer, an answer that was sent never changes, and the status is
\* one of 200, 400, 401, 413, 500, 503, each sent for its cause only.
C20_OneAnswerPerCall ==
    /\ [](\A r \in Requests :
            /\ StatusHasItsCause(r)
            /\ Finished(r) => Answered(r)
            /\ (Posted(r) /\ ~Finished(r)) => ENABLED Handler(r))
    /\ [][\A r \in Requests :
            /\ Answered(r) => req'[r].response = req[r].response
            /\ req'[r].pc # req[r].pc => PcRank[req'[r].pc] > PcRank[req[r].pc]]_vars

C20_Witness ==
    \E r1, r2 \in Requests :
        /\ Finished(r1) /\ req[r1].response.status = 503 /\ req[r1].sendRejected
        /\ Finished(r2) /\ req[r2].response.status = 500

\* C21: validateTivePayload returns a result for every parsed document, it
\* never throws, and valid is false exactly when there are errors.
C21_ValidatorTotal ==
    Returned("validateTivePayload")
        => /\ ~calc.out.threw
           /\ calc.out.valid <=> Len(calc.out.errors) = 0

\* the fields named by a list of validation errors
ErrorFields(errors) == { errors[i].field : i \in 1..Len(errors) }

\* C22: when a required field is missing from a payload (it is absent and
\* the object that holds it is present), the result is invalid and has an
\* error whose field is the name of that field.
C22_MissingFieldNamed ==
    LET Missing(p, f) ==
            /\ f \notin p.has
            /\ Parent(f) = f \/ (Parent(f) \in p.has /\ Parent(f) \notin p.mistyped)
    IN  (Returned("validateTivePayload") /\ ~calc.out.threw)
            => \A f \in AllFields :
                  Missing(calc.arg, f)
                      => (~calc.out.valid /\ f \in ErrorFields(calc.out.errors))

C22_Witness ==
    /\ Returned("validateTivePayload")
    /\ calc.arg.has = AllFields \ {"Location.Longitude"}
    /\ calc.arg.mistyped = {}
    /\ ~calc.out.valid
    /\ ErrorFields(calc.out.errors) = {"Location.Longitude"}

\* C23: the ranges are closed intervals: a payload that is valid otherwise
\* passes for every temperature in [-100, 100], latitude in [-90, 90] and
\* longitude in [-180, 180], end points included, and gets an error on the
\* field concerned for every value outside.
C23_ClosedRanges ==
    LET InRange(v, lo, hi) == lo * Micro <= v /\ v <= hi * Micro
    IN
    (Returned("validateTivePayload") /\ calc.arg \in RangeDocs)
        => /\ "Temperature.Celsius" \in ErrorFields(calc.out.errors)
                <=> ~InRange(calc.arg.Celsius, TEMP_MIN, TEMP_MAX)
           /\ "Location.Latitude" \in ErrorFields(calc.out.errors)
                <=> ~InRange(calc.arg.Latitude, LATITUDE_MIN, LATITUDE_MAX)
           /\ "Location.Longitude" \in ErrorFields(calc.out.errors)
                <=> ~InRange(calc.arg.Longitude, LONGITUDE_MIN, LONGITUDE_MAX)
           /\ calc.out.valid
                <=> /\ InRange(calc.arg.Celsius, TEMP_MIN, TEMP_MAX)
                    /\ InRange(calc.arg.Latitude, LATITUDE_MIN, LATITUDE_MAX)
                    /\ InRange(calc.arg.Longitude, LONGITUDE_MIN, LONGITUDE_MAX)

C23_Witness ==
    /\ Returned("validateTivePayload")
    /\ calc.arg.Celsius = TEMP_MAX * Micro
    /\ calc.arg.Latitude = LATITUDE_MIN * Micro
    /\ calc.arg.Longitude = LONGITUDE_MAX * Micro
    /\ calc.out.valid

\* C24: the transformer rounds temperature to 2 decimals, humidity and light
\* to 1, the accelerometer values to 3 and dBm to 2, halves away from zero
\* for positive and negative values alike (X -0.5625 gives -0.563).
C24_RoundsHalfAwayFromZero ==
    LET \* num / den rounded to the nearest integer, halves away from zero
        RoundHalfAway(num, den) ==
            IF num >= 0 THEN (2 * num + den) \div (2 * den)
            ELSE 0 - ((2 * (0 - num) + den) \div (2 * den))
        IsHalfAway(v, x, unit) == v = RoundHalfAway(x, unit) * unit
        NullOr(n, cond) == n.null \/ cond
    IN
    /\ Returned("transformToSensorPayload")
        => /\ IsHalfAway(calc.out.temperature, calc.arg.Celsius, Micro \div 100)
           /\ NullOr(calc.out.humidity,
                     IsHalfAway(calc.out.humidity.v, calc.arg.Humidity, Micro \div 10))
           /\ NullOr(calc.out.light_level,
                     IsHalfAway(calc.out.light_level.v, calc.arg.Lux, Micro \div 10))
           /\ calc.out.accelerometer.null
              \/ /\ NullOr(calc.out.accelerometer.x,
                            IsHalfAway(calc.out.accelerometer.x.v, calc.arg.AccX, AccUnit \div 1000))
                 /\ NullOr(calc.out.accelerometer.y,
                            IsHalfAway(calc.out.accelerometer.y.v, calc.arg.AccY, AccUnit \div 1000))
                 /\ NullOr(calc.out.accelerometer.z,
                            IsHalfAway(calc.out.accelerometer.z.v, calc.arg.AccZ, AccUnit \div 1000))
                 /\ NullOr(calc.out.accelerometer.magnitude,
                            IsHalfAway(calc.out.accelerometer.magnitude.v, calc.arg.AccG,
                                       AccUnit \div 1000))
    /\ Returned("transformToLocationPayload")
        => NullOr(calc.out.cellular_dbm,
                  IsHalfAway(calc.out.cellular_dbm.v, calc.arg.Dbm, Micro \div 100))

C26_CriticalExactlyOnViolation ==
    Returned("isCriticalEvent")
        => LET p == calc.arg
               rs == { calc.out.reasons[i] : i \in 1..Len(calc.out.reasons) }
               TemperatureViolated(q) == q.Celsius < -20 * Micro \/ q.Celsius > 30 * Micro
               HumidityViolated(q) ==
                   /\ "Humidity.Percentage" \in q.has
                   /\ q.Humidity < 20 * Micro \/ q.Humidity > 80 * Micro
               BatteryViolated(q) == "Battery.Percentage" \in q.has /\ q.Battery < 20 * Micro
               SignalViolated(q) == "Cellular.Dbm" \in q.has /\ q.Dbm < -120 * Micro
               MovementViolated(q) ==
                   /\ "Accelerometer" \in q.has
                   /\ IF {"Accelerometer.X", "Accelerometer.Y", "Accelerometer.Z"}
                            \subseteq q.has
                      THEN q.AccX * q.AccX + q.AccY * q.AccY + q.AccZ * q.AccZ
                              > 4 * AccUnit * AccUnit
                      ELSE "Accelerometer.G" \in q.has /\ q.AccG > 2 * AccUnit
           IN  /\ calc.out.isCritical <=> Len(calc.out.reasons) > 0
               /\ calc.out.isCritical
                    <=> \/ TemperatureViolated(p) \/ HumidityViolated(p)
                        \/ BatteryViolated(p) \/ SignalViolated(p) \/ MovementViolated(p)
               /\ TemperatureViolated(p)
                    <=> rs \cap {"Temperature too low", "Temperature too high"} # {}
               /\ HumidityViolated(p)
                    <=> rs \cap {"Humidity too low", "Humidity too high"} # {}
               /\ BatteryViolated(p) <=> "Low battery" \in rs
               /\ SignalViolated(p) <=> "Poor cellular signal" \in rs
               /\ MovementViolated(p) <=> "High movement detected" \in rs

\* every present value on a limit of its range: not critical
C26_Witness ==
    /\ Returned("isCriticalEvent")
    /\ {"Humidity.Percentage", "Battery.Percentage", "Cellular.Dbm", "Accelerometer.Z"}
         \subseteq calc.arg.has
    /\ calc.arg.Celsius = 30 * Micro
    /\ calc.arg.Humidity = 20 * Micro
    /\ calc.arg.Battery = 20 * Micro
    /\ calc.arg.Dbm = -120 * Micro
    /\ <<calc.arg.AccX, calc.arg.AccY, calc.arg.AccZ>> = <<12000, 16000, 0>>
    /\ ~calc.out.isCritical

\* C27: two valid payloads that differ only in whether they are classified
\* critical get the same storage writes from the request handler and from
\* the job when no operation is rejected: the handler inserts a sensor
\* reading and a location reading for both or for neither.
C27_ClassificationOrthogonal ==
    \A r1, r2 \in Requests :
        (/\ ValidCall(r1) /\ ValidCall(r2)
         /\ Finished(r1) /\ Finished(r2)
         /\ faults = 0 /\ redelivered = 0
         /\ [req[r1].call.body EXCEPT !.Celsius = 0] = [req[r2].call.body EXCEPT !.Celsius = 0]
         /\ isCriticalEvent(req[r1].call.body) # isCriticalEvent(req[r2].call.body))
            => /\ req[r1].telemetryId = None <=> req[r2].telemetryId = None
               /\ req[r1].locationId = None <=> req[r2].locationId = None

C30_AuthenticatedIffSecret ==
    Returned("validateApiKey")
        => LET h == calc.arg.headers
               secret == calc.arg.secret
           IN  calc.out
                  <=> /\ secret # ""
                      /\ \/ h.xApiKey = secret
                         \/ /\ h.xApiKey = NoHeader
                            /\ h.authScheme = "Bearer"
                            /\ h.authRest = secret

\* C31: on an existing device_latest row the snapshot update of the request
\* handler leaves latest_telemetry_id and latest_location_id unchanged, and
\* the reference update leaves last_ts and every snapshot field unchanged and
\* adds or removes no row, in every interleaving of handlers and jobs.
C31_LatestWritersDisjoint ==
    [][LET References(row) == <<row.latestTelemetryId, row.latestLocationId>>
           SnapshotWrite == \E r \in Requests : req[r].pc = "upsert" /\ req'[r].pc # "upsert"
           ReferenceWrite ==
               \/ \E t \in TaskIds : tasks[t].pc = "updateLatest" /\ tasks'[t].pc # "updateLatest"
               \/ \E r \in Requests :
                     req[r].pc = "criticalUpdate" /\ req'[r].pc # "criticalUpdate"
       IN  /\ SnapshotWrite
                => \A old \in deviceLatest : \E new \in deviceLatest' :
                      /\ new.deviceImei = old.deviceImei
                      /\ References(new) = References(old)
           /\ ReferenceWrite
                => /\ { row.deviceImei : row \in deviceLatest' }
                        = { row.deviceImei : row \in deviceLatest }
                   /\ \A old \in deviceLatest : \E new \in deviceLatest' :
                         /\ new.deviceImei = old.deviceImei
                         /\ new.snapshot = old.snapshot]_vars

\* both writers have written the row: its references come from the task of
\* one call, its snapshot from the later call
C31_Witness ==
    \E row \in deviceLatest :
        /\ row.latestTelemetryId # None
        /\ row.latestLocationId # None
        /\ telemetry[row.latestTelemetryId].temperature # row.snapshot.lastTemperature

\* C32: for every payload that passed validation, the timestamps written to
\* its sensor reading, to its location reading and to device_latest.last_ts
\* by the request handler are equal.
C32_TimestampsAgree ==
    (Returned("hotPathTimestamps") /\ calc.out.valid)
        => /\ calc.out.sensor = calc.out.location
           /\ calc.out.lastTs = calc.out.sensor
           /\ calc.out.lastTsFirstBuild = calc.out.sensor

\* the oldest timestamp the validator lets through
C32_Witness ==
    /\ Returned("hotPathTimestamps")
    /\ calc.arg.EntryTimeEpoch = Now - MAX_TIMESTAMP_OFFSET
    /\ calc.out.valid
    /\ calc.out.lastTsFirstBuild = calc.out.location

\* C33: a task whose transform or persist step fails in every run is run at
\* most 1 + 3 times and is then given up for good: no step of the job is
\* enabled for it any more, so the job writes nothing further for it.
C33_RetriesBounded ==
    \A t \in TaskIds :
        /\ tasks[t].attempts <= retries + 1
        /\ tasks[t].pc = "exhausted"
             => /\ tasks[t].attempts = 1 + 3
                /\ ~ENABLED (\/ JobTransformFails(t) \/ JobSave(t) \/ JobSaveRejected(t)
                             \/ JobUpdateLatest(t) \/ JobUpdateStatus(t) \/ JobRedeliver(t))
        /\ tasks[t].attempts = retries + 1 => tasks[t].pc = "exhausted"

\* one task given up after its transformation threw in every run, another
\* after its inserts were rejected in every run
C33_Witness ==
    \E t, u \in TaskIds :
        /\ tasks[t].pc = "exhausted" /\ transformThrows(tasks[t].payload)
        /\ tasks[u].pc = "exhausted" /\ ~transformThrows(tasks[u].payload)
        /\ faults = 0

\* C34: under fair scheduling and bounded retries, every audit row created
\* with status pending eventually has status completed or failed, also when
\* the task is given up, when the status update of the job is rejected and
\* when the background dispatch is rejected.
C34_PendingResolves ==
    \A r \in Requests :
        LET Status == IF req[r].rawPayloadId = None THEN "none"
                      ELSE rawPayloads[req[r].rawPayloadId].status
        IN  (Status = "pending") ~> (Status \in {"completed", "failed"})

\* C35: whenever an audit row has status completed, a sensor reading and a
\* location reading produced from the payload of that row are stored, and a
\* run of the job that is about to mark its row completed holds the ids of
\* both readings.
C35_CompletedHasReadings ==
    /\ \A i \in 1..Len(rawPayloads) :
          rawPayloads[i].status = "completed"
              => /\ \E k \in 1..Len(telemetry) :
                       telemetry[k] = SensorReadingOf(rawPayloads[i].payload)
                 /\ \E k \in 1..Len(locations) :
                       locations[k] = LocationReadingOf(rawPayloads[i].payload)
    /\ \A t \in TaskIds :
          tasks[t].pc = "updateStatus"
              => /\ tasks[t].telemetryId \in 1..Len(telemetry)
                 /\ tasks[t].locationId \in 1..Len(locations)
                 /\ telemetry[tasks[t].telemetryId] = SensorReadingOf(tasks[t].payload)
                 /\ locations[tasks[t].locationId] = LocationReadingOf(tasks[t].payload)

\* a completed row of build "critical" whose readings were inserted by the
\* request handler, and so exactly once
C35_Witness ==
    \E i \in 1..Len(rawPayloads) :
        /\ variant = "critical"
        /\ rawPayloads[i].status = "completed"
        /\ isCriticalEvent(rawPayloads[i].payload)
        /\ Cardinality({ k \in 1..Len(telemetry) :
                           telemetry[k] = SensorReadingOf(rawPayloads[i].payload) }) = 1
        /\ faults = 0

\* C36: in every reachable state the references of a device_latest row, when
\* not null, identify stored readings of the device of that row, and no
\* reading is referenced by two device_latest rows.
C36_ReferencesValid ==
    /\ \A row \in deviceLatest :
          /\ row.latestTelemetryId # None
                => /\ row.latestTelemetryId \in 1..Len(telemetry)
                   /\ telemetry[row.latestTelemetryId].deviceImei = row.deviceImei
          /\ row.latestLocationId # None
                => /\ row.latestLocationId \in 1..Len(locations)
                   /\ locations[row.latestLocationId].deviceImei = row.deviceImei
    /\ \A row1, row2 \in deviceLatest :
          row1 # row2
              => /\ row1.latestTelemetryId = None
                    \/ row1.latestTelemetryId # row2.latestTelemetryId
                 /\ row1.latestLocationId = None
                    \/ row1.latestLocationId # row2.latestLocationId

\* two devices, the row of each referencing its own readings
C36_Witness ==
    \E row1, row2 \in deviceLatest :
        /\ row1.deviceImei # row2.deviceImei
        /\ row1.latestTelemetryId # None /\ row1.latestLocationId # None
        /\ row2.latestTelemetryId # None /\ row2.latestLocationId # None

\* C37: every task handed to the dispatcher carries the id of a stored audit
\* row that was created with status pending for a payload that passed
\* validation, and the payload of the task is the payload of that row; no
\* task is dispatched for an unauthenticated, malformed or invalid call, nor
\* with an undefined raw id.
C37_TasksCarryAuditRow ==
    /\ \A t \in TaskIds :
          /\ tasks[t].raw_id # None
          /\ tasks[t].raw_id \in 1..Len(rawPayloads)
          /\ rawPayloads[tasks[t].raw_id].payload = tasks[t].payload
          /\ rowOwner[tasks[t].raw_id] = tasks[t].by
          /\ validateTivePayload(tasks[t].payload).valid
          /\ rawPayloads[tasks[t].raw_id].validationErrors = <<>>
          /\ rawPayloads[tasks[t].raw_id].status \in {"pending", "completed"}
          /\ (tasks[t].pc = "queued" /\ tasks[t].attempts = 0 /\ redelivered = 0)
                => rawPayloads[tasks[t].raw_id].status = "pending"
          /\ ValidCall(tasks[t].by)
    /\ \A r \in Requests :
          (Posted(r) /\ ~ValidCall(r)) => TasksBy(r) = {}

\* a task waiting for its first run next to an invalid call that has been
\* answered and has no task
C37_Witness ==
    \E t \in TaskIds, r \in Requests :
        /\ tasks[t].pc = "queued" /\ tasks[t].attempts = 0
        /\ rawPayloads[tasks[t].raw_id].status = "pending"
        /\ InvalidCall(r) /\ Finished(r)
        /\ RowsBy(r) # {}
        /\ TasksBy(r) = {}

\* C38: the two updaters of an audit row have disjoint effects in every
\* interleaving: a step that changes status or processed-at of a row leaves
\* its payload and its inngest_event_id as they are, and a step that changes
\* inngest_event_id leaves payload, status, processed-at and validation
\* errors as they are, so a completed row stays completed when the event id
\* is recorded late.
C38_RawUpdatersDisjoint ==
    [][\A i \in 1..Len(rawPayloads) :
          LET old == rawPayloads[i]
              new == rawPayloads'[i]
          IN  /\ new.payload = old.payload
              /\ (new.status # old.status \/ new.processed # old.processed)
                    => new.inngestEventId = old.inngestEventId
              /\ new.inngestEventId # old.inngestEventId
                    => /\ new.status = old.status
                       /\ new.processed = old.processed
                       /\ new.validationErrors = old.validationErrors]_vars

\* the job has marked the row completed before the handler has recorded the
\* event id of its task
C38_Witness ==
    \E r \in Requests :
        /\ req[r].pc = "recordEvent"
        /\ rawPayloads[req[r].rawPayloadId].status = "completed"
        /\ rawPayloads[req[r].rawPayloadId].inngestEventId = None
        /\ req[r].inngestEventId # None

============================================================================
